---- MODULE Spec2Model ----
(***************************************************************************)
(* Model of the seizure tracker's batch import: the free-text and CSV      *)
(* parsers (parser.js, BatchImport.js), the BatchImport component's        *)
(* staging and commit protocol, and the record store it writes to.         *)
(*                                                                         *)
(* Strings are sequences of one-character strings, so that the regular     *)
(* expressions of the source can be run on them character by character.    *)
(***************************************************************************)
EXTENDS Integers, Sequences, FiniteSets, TLC

(***************************************************************************)
(* Characters                                                              *)
(***************************************************************************)
Digit == {"0", "1", "2", "3", "4", "5", "6", "7", "8", "9"}

\* \s of a JavaScript regular expression, and the characters trim() removes
\* (restricted to the white space the inputs use)
Space == {" ", "\t", "\n", "\r"}

UpperLetters == <<"A", "B", "C", "D", "E", "F", "G", "H", "I", "J", "K", "L", "M",
                  "N", "O", "P", "Q", "R", "S", "T", "U", "V", "W", "X", "Y", "Z">>

LowerLetters == <<"a", "b", "c", "d", "e", "f", "g", "h", "i", "j", "k", "l", "m",
                  "n", "o", "p", "q", "r", "s", "t", "u", "v", "w", "x", "y", "z">>

UpperToLower ==
    [c \in {UpperLetters[k] : k \in 1..Len(UpperLetters)} |->
        LowerLetters[CHOOSE k \in 1..Len(UpperLetters) : UpperLetters[k] = c]]

LowerToUpper ==
    [c \in {LowerLetters[k] : k \in 1..Len(LowerLetters)} |->
        UpperLetters[CHOOSE k \in 1..Len(LowerLetters) : LowerLetters[k] = c]]

\* String.prototype.toLowerCase on one character
LowerChar(c) == IF c \in DOMAIN UpperToLower THEN UpperToLower[c] ELSE c

\* String.prototype.toUpperCase on one character
UpperChar(c) == IF c \in DOMAIN LowerToUpper THEN LowerToUpper[c] ELSE c

toLowerCase(s) == [k \in 1..Len(s) |-> LowerChar(s[k])]

DigitValue(c) ==
    CASE c = "0" -> 0 [] c = "1" -> 1 [] c = "2" -> 2 [] c = "3" -> 3 [] c = "4" -> 4
      [] c = "5" -> 5 [] c = "6" -> 6 [] c = "7" -> 7 [] c = "8" -> 8 [] c = "9" -> 9

DigitChar(d) ==
    CASE d = 0 -> "0" [] d = 1 -> "1" [] d = 2 -> "2" [] d = 3 -> "3" [] d = 4 -> "4"
      [] d = 5 -> "5" [] d = 6 -> "6" [] d = 7 -> "7" [] d = 8 -> "8" [] d = 9 -> "9"

(***************************************************************************)
(* String primitives of the JavaScript runtime                             *)
(***************************************************************************)
\* A number is held as a one-element sequence <<n>>, and NaN as the empty one.
NaN == <<>>

Num(n) == <<n>>

\* the values null and undefined where a string is expected (a missing group or
\* array element): no sequence of characters equals it
Null == <<"null">>

RECURSIVE DigitsValue(_, _)
DigitsValue(s, acc) ==
    IF s = <<>> THEN acc ELSE DigitsValue(Tail(s), 10 * acc + DigitValue(Head(s)))

RECURSIVE SkipSpace(_, _)
SkipSpace(s, i) == IF i <= Len(s) /\ s[i] \in Space THEN SkipSpace(s, i + 1) ELSE i

RECURSIVE DigitRunEnd(_, _)
DigitRunEnd(s, i) == IF i <= Len(s) /\ s[i] \in Digit THEN DigitRunEnd(s, i + 1) ELSE i

\* parseInt(s): leading white space, an optional sign, then the longest run of
\* digits; NaN when there is no digit there. parseInt(undefined) is NaN.
parseInt(s) ==
    IF s = Null THEN NaN
    ELSE LET i == SkipSpace(s, 1)
             neg == i <= Len(s) /\ s[i] = "-"
             j == IF i <= Len(s) /\ s[i] \in {"-", "+"} THEN i + 1 ELSE i
             e == DigitRunEnd(s, j)
         IN  IF e = j THEN NaN
             ELSE IF neg THEN Num(0 - DigitsValue(SubSeq(s, j, e - 1), 0))
                  ELSE Num(DigitsValue(SubSeq(s, j, e - 1), 0))

\* x || 0 for a number x: 0 for NaN (and for 0), x otherwise
OrZero(x) == IF x = NaN THEN 0 ELSE x[1]

RECURSIVE NatToString(_)
NatToString(n) ==
    IF n < 10 THEN <<DigitChar(n)>> ELSE Append(NatToString(n \div 10), DigitChar(n % 10))

\* Number.prototype.toString / String(n) for an integer
toString(n) == IF n < 0 THEN <<"-">> \o NatToString(0 - n) ELSE NatToString(n)

\* s.padStart(2, '0')
padStart2(s) == IF Len(s) < 2 THEN <<"0">> \o s ELSE s

RECURSIVE TrimStart(_)
TrimStart(s) == IF s /= <<>> /\ Head(s) \in Space THEN TrimStart(Tail(s)) ELSE s

RECURSIVE TrimEnd(_)
TrimEnd(s) ==
    IF s /= <<>> /\ s[Len(s)] \in Space THEN TrimEnd(SubSeq(s, 1, Len(s) - 1)) ELSE s

\* String.prototype.trim
trim(s) == TrimEnd(TrimStart(s))

\* s.substring(i) for a 1-based first position
From(s, i) == SubSeq(s, i, Len(s))

\* whether w occurs in s at position i
OccursAt(s, w, i) == i + Len(w) - 1 <= Len(s) /\ SubSeq(s, i, i + Len(w) - 1) = w

\* String.prototype.includes
includes(s, w) == \E i \in 1..(Len(s) + 1) : OccursAt(s, w, i)

\* the members of a set of numbers in increasing order
SortedSeq(S) ==
    [k \in 1..Cardinality(S) |-> CHOOSE i \in S : Cardinality({j \in S : j < i}) = k - 1]

\* the pieces of s between the positions seps (each a one-character separator),
\* empty pieces kept
SplitAt(s, seps) ==
    LET at == SortedSeq(seps)
        n == Len(at)
    IN  [k \in 1..(n + 1) |->
            SubSeq(s, IF k = 1 THEN 1 ELSE at[k - 1] + 1,
                      IF k = n + 1 THEN Len(s) ELSE at[k] - 1)]

\* s.split(c) for a one-character separator c
split(s, c) == SplitAt(s, {i \in 1..Len(s) : s[i] = c})

\* a sequence restricted to the positions keep, in order
Pick(seq, keep) == LET at == SortedSeq(keep) IN [k \in 1..Len(at) |-> seq[at[k]]]

\* lines.filter(line => line.trim()): the lines that are not blank
Filter(lines) == Pick(lines, {k \in 1..Len(lines) : trim(lines[k]) /= <<>>})

(***************************************************************************)
(* Regular expressions, with the matching order of a backtracking engine   *)
(* (ECMAScript RegExp): alternatives left to right, quantifiers greedy.    *)
(* Every expression of the source carries the i flag, so a character is    *)
(* compared in lower case.                                                 *)
(*                                                                         *)
(* The matcher returns the sequence of all ways an expression matches at a *)
(* position, in the engine's order of preference: each is the position     *)
(* after the match and the named groups captured so far.  The engine's     *)
(* match is the first one of the leftmost position that has any.           *)
(***************************************************************************)
Ch(cs) == [t |-> "set", cs |-> cs]

Cat(items) == [t |-> "seq", items |-> items]

Alt(items) == [t |-> "alt", items |-> items]

\* r{min,max}; max = -1 is no upper limit
Rep(r, min, max) == [t |-> "rep", r |-> r, min |-> min, max |-> max]

Opt(r) == Rep(r, 0, 1)

Star(r) == Rep(r, 0, -1)

Plus(r) == Rep(r, 1, -1)

\* (?<name>r)
Grp(name, r) == [t |-> "grp", name |-> name, r |-> r]

\* (?!r)
NotAhead(r) == [t |-> "nla", r |-> r]

\* the literal word w (given in lower case)
Word(w) == Cat([k \in 1..Len(w) |-> Ch({w[k]})])

\* $ (without the m flag): the end of the text
AtEnd == [t |-> "end"]

GroupNames == {"month", "day", "year", "time", "minutes", "seconds", "g1", "g2", "g3",
               "hour", "minute", "second", "period"}

\* a group that took no part in the match has no span
NoGroups == [n \in GroupNames |-> <<>>]

\* the result null of a match that failed
NoMatch == [b |-> 0, e |-> 0, g |-> NoGroups]

RECURSIVE M(_, _, _, _), MSeq(_, _, _, _, _), ContSeq(_, _, _, _, _),
          MAlt(_, _, _, _, _), MRep(_, _, _, _, _), ContRep(_, _, _, _, _, _)

M(r, s, i, g) ==
    CASE r.t = "set" ->
            IF i <= Len(s) /\ LowerChar(s[i]) \in r.cs
            THEN <<[e |-> i + 1, g |-> g]>> ELSE <<>>
      [] r.t = "seq" -> MSeq(r.items, 1, s, i, g)
      [] r.t = "alt" -> MAlt(r.items, 1, s, i, g)
      [] r.t = "rep" -> MRep(r, 0, s, i, g)
      [] r.t = "grp" ->
            LET ms == M(r.r, s, i, g)
            IN  [k \in 1..Len(ms) |->
                    [e |-> ms[k].e, g |-> [ms[k].g EXCEPT ![r.name] = <<i, ms[k].e>>]]]
      [] r.t = "nla" ->
            IF M(r.r, s, i, g) = <<>> THEN <<[e |-> i, g |-> g]>> ELSE <<>>
      [] r.t = "end" ->
            IF i = Len(s) + 1 THEN <<[e |-> i, g |-> g]>> ELSE <<>>

MSeq(items, k, s, i, g) ==
    IF k > Len(items) THEN <<[e |-> i, g |-> g]>>
    ELSE ContSeq(M(items[k], s, i, g), 1, items, k + 1, s)

ContSeq(ms, j, items, k, s) ==
    IF j > Len(ms) THEN <<>>
    ELSE MSeq(items, k, s, ms[j].e, ms[j].g) \o ContSeq(ms, j + 1, items, k, s)

MAlt(items, k, s, i, g) ==
    IF k > Len(items) THEN <<>>
    ELSE M(items[k], s, i, g) \o MAlt(items, k + 1, s, i, g)

\* n repetitions done: one more first (greedy), then stopping here
MRep(r, n, s, i, g) ==
    (IF r.max = -1 \/ n < r.max THEN ContRep(M(r.r, s, i, g), 1, r, n + 1, s, i) ELSE <<>>)
    \o (IF n >= r.min THEN <<[e |-> i, g |-> g]>> ELSE <<>>)

ContRep(ms, j, r, n, s, i0) ==
    IF j > Len(ms) THEN <<>>
    ELSE (IF ms[j].e > i0 THEN MRep(r, n, s, ms[j].e, ms[j].g) ELSE <<>>)
         \o ContRep(ms, j + 1, r, n, s, i0)

\* the engine's match of r in s at or after position i: NoMatch, or the first and
\* last+1 positions of the match and its groups
exec(r, s, i) ==
    LET starts == {b \in i..(Len(s) + 1) : M(r, s, b, NoGroups) /= <<>>}
    IN  IF starts = {} THEN NoMatch
        ELSE LET b == CHOOSE x \in starts : \A y \in starts : x <= y
                 ms == M(r, s, b, NoGroups)
             IN  [b |-> b, e |-> ms[1].e, g |-> ms[1].g]

\* text.match(r) for an expression without the g flag
match(s, r) == exec(r, s, 1)

\* the text of a group of a match: Null (undefined) for a group that took no part
GroupText(s, m, name) ==
    IF m.g[name] = <<>> THEN Null ELSE SubSeq(s, m.g[name][1], m.g[name][2] - 1)

\* text.replace(r, '') for an expression with the g flag: every match removed,
\* the search resuming after each match
RECURSIVE replaceAll(_, _, _), ReplaceMatch(_, _, _, _)
replaceAll(s, r, i) == ReplaceMatch(s, r, i, exec(r, s, i))

\* the text from position i on with the match m of r, and every later one, removed
ReplaceMatch(s, r, i, m) ==
    IF m = NoMatch THEN From(s, i)
    ELSE SubSeq(s, i, m.b - 1)
         \o (IF m.e > m.b THEN replaceAll(s, r, m.e)
             ELSE IF m.b <= Len(s) THEN <<s[m.b]>> \o replaceAll(s, r, m.b + 1)
                  ELSE <<>>)

(***************************************************************************)
(* parser.js: the free-text parser                                         *)
(***************************************************************************)
D12 == Rep(Ch(Digit), 1, 2)

\* st|nd|rd|th
Ordinal == Alt(<<Word(<<"s", "t">>), Word(<<"n", "d">>), Word(<<"r", "d">>), Word(<<"t", "h">>)>>)

\* [\s,]
SpaceOrComma == Ch(Space \cup {","})

\* am|pm|AM|PM (the same as am|pm under the i flag)
AmPm == Alt(<<Word(<<"a", "m">>), Word(<<"p", "m">>), Word(<<"a", "m">>), Word(<<"p", "m">>)>>)

\* jan(?:uary)?|feb(?:ruary)?|...|dec(?:ember)?
MonthName ==
    Alt(<<Cat(<<Word(<<"j", "a", "n">>), Opt(Word(<<"u", "a", "r", "y">>))>>),
          Cat(<<Word(<<"f", "e", "b">>), Opt(Word(<<"r", "u", "a", "r", "y">>))>>),
          Cat(<<Word(<<"m", "a", "r">>), Opt(Word(<<"c", "h">>))>>),
          Cat(<<Word(<<"a", "p", "r">>), Opt(Word(<<"i", "l">>))>>),
          Word(<<"m", "a", "y">>),
          Cat(<<Word(<<"j", "u", "n">>), Opt(Word(<<"e">>))>>),
          Cat(<<Word(<<"j", "u", "l">>), Opt(Word(<<"y">>))>>),
          Cat(<<Word(<<"a", "u", "g">>), Opt(Word(<<"u", "s", "t">>))>>),
          Cat(<<Word(<<"s", "e", "p">>), Opt(Word(<<"t", "e", "m", "b", "e", "r">>))>>),
          Cat(<<Word(<<"o", "c", "t">>), Opt(Word(<<"o", "b", "e", "r">>))>>),
          Cat(<<Word(<<"n", "o", "v">>), Opt(Word(<<"e", "m", "b", "e", "r">>))>>),
          Cat(<<Word(<<"d", "e", "c">>), Opt(Word(<<"e", "m", "b", "e", "r">>))>>)>>)

\* (?<time>\d{1,4}(?::\d{2})?\s*(?:am|pm|AM|PM)(?:\(ish\))?)
TimeGroup ==
    Grp("time", Cat(<<Rep(Ch(Digit), 1, 4),
                      Opt(Cat(<<Ch({":"}), Rep(Ch(Digit), 2, 2)>>)),
                      Star(Ch(Space)),
                      AmPm,
                      Opt(Word(<<"(", "i", "s", "h", ")">>))>>))

\* the three patterns of extractDateTime, in the order they are tried
DatePatterns ==
    <<  \* M/D/Y
        Cat(<<Grp("month", D12), Ch({"/"}), Grp("day", D12), Ch({"/"}),
              Grp("year", Rep(Ch(Digit), 2, 4)),
              Star(SpaceOrComma), Opt(TimeGroup)>>),
        \* Month D[,] [Y]
        Cat(<<Grp("month", MonthName), Plus(Ch(Space)), Grp("day", D12), Opt(Ordinal),
              Star(SpaceOrComma), Opt(Grp("year", Rep(Ch(Digit), 4, 4))),
              Star(SpaceOrComma), Opt(TimeGroup)>>),
        \* D Month[,] [Y]
        Cat(<<Grp("day", D12), Opt(Ordinal), Plus(Ch(Space)), Grp("month", MonthName),
              Star(SpaceOrComma), Opt(Grp("year", Rep(Ch(Digit), 4, 4))),
              Star(SpaceOrComma), Opt(TimeGroup)>>) >>

\* /\(ish\)/gi
IshPattern == Word(<<"(", "i", "s", "h", ")">>)

\* /(\d{1,4})(?::(\d{2}))?\s*(am|pm)/i
TimePattern ==
    Cat(<<Grp("g1", Rep(Ch(Digit), 1, 4)),
          Opt(Cat(<<Ch({":"}), Grp("g2", Rep(Ch(Digit), 2, 2))>>)),
          Star(Ch(Space)),
          Grp("g3", Alt(<<Word(<<"a", "m">>), Word(<<"p", "m">>)>>))>>)

MonthTable ==
    <<  <<<<"j", "a", "n">>, 1>>, <<<<"j", "a", "n", "u", "a", "r", "y">>, 1>>, <<<<"f", "e", "b">>, 2>>, <<<<"f", "e", "b", "r", "u", "a", "r", "y">>, 2>>,
        <<<<"m", "a", "r">>, 3>>, <<<<"m", "a", "r", "c", "h">>, 3>>, <<<<"a", "p", "r">>, 4>>, <<<<"a", "p", "r", "i", "l">>, 4>>,
        <<<<"m", "a", "y">>, 5>>, <<<<"j", "u", "n">>, 6>>, <<<<"j", "u", "n", "e">>, 6>>, <<<<"j", "u", "l">>, 7>>, <<<<"j", "u", "l", "y">>, 7>>,
        <<<<"a", "u", "g">>, 8>>, <<<<"a", "u", "g", "u", "s", "t">>, 8>>, <<<<"s", "e", "p">>, 9>>, <<<<"s", "e", "p", "t", "e", "m", "b", "e", "r">>, 9>>,
        <<<<"o", "c", "t">>, 10>>, <<<<"o", "c", "t", "o", "b", "e", "r">>, 10>>, <<<<"n", "o", "v">>, 11>>, <<<<"n", "o", "v", "e", "m", "b", "e", "r">>, 11>>,
        <<<<"d", "e", "c">>, 12>>, <<<<"d", "e", "c", "e", "m", "b", "e", "r">>, 12>> >>

\* months[monthName.toLowerCase()] || 1
parseMonthName(monthName) ==
    LET hit == {k \in 1..Len(MonthTable) : MonthTable[k][1] = toLowerCase(monthName)}
    IN  IF hit = {} THEN 1 ELSE MonthTable[CHOOSE k \in hit : TRUE][2]

\* isNaN(s) for a string s: whether Number(s) is NaN (s is never blank here)
isNaN(s) == \E k \in 1..Len(s) : s[k] \notin Digit

\* hours of a time token: the leading digit or two of a run of 3 or 4 digits
\* without a colon, else the whole number
HoursOf(timeNum, colon) ==
    parseInt(IF colon = Null /\ Len(timeNum) = 3 THEN <<timeNum[1]>>
             ELSE IF colon = Null /\ Len(timeNum) = 4 THEN SubSeq(timeNum, 1, 2)
             ELSE timeNum)[1]

\* minutes of a time token, as text
MinutesOf(timeNum, colon) ==
    IF colon = Null
    THEN IF Len(timeNum) = 3 THEN From(timeNum, 2)
         ELSE IF Len(timeNum) = 4 THEN From(timeNum, 3)
         ELSE <<"0", "0">>
    ELSE colon

\* hours += 12 for pm before 12, hours = 0 for 12 am
To24(hours, period) ==
    IF period = <<"p", "m">> /\ hours < 12 THEN hours + 12
    ELSE IF period = <<"a", "m">> /\ hours = 12 THEN 0
    ELSE hours

\* the hours and minutes of a matched time token, as the text HH:mm
TimeOfMatch(cleanTime, timeMatch) ==
    padStart2(toString(To24(HoursOf(GroupText(cleanTime, timeMatch, "g1"),
                                    GroupText(cleanTime, timeMatch, "g2")),
                            toLowerCase(GroupText(cleanTime, timeMatch, "g3")))))
    \o <<":">>
    \o MinutesOf(GroupText(cleanTime, timeMatch, "g1"), GroupText(cleanTime, timeMatch, "g2"))

\* timeStr for a cleaned time text and its match: 12:00 where there is no token
TimeOrNoon(cleanTime, timeMatch) ==
    IF timeMatch /= NoMatch THEN TimeOfMatch(cleanTime, timeMatch)
    ELSE <<"1", "2", ":", "0", "0">>

\* timeStr for the time group of the date match: 12:00 where the group is absent
TimeString(time) ==
    IF time = Null THEN <<"1", "2", ":", "0", "0">>
    ELSE TimeOrNoon(trim(replaceAll(time, IshPattern, 1)),
                    match(trim(replaceAll(time, IshPattern, 1)), TimePattern))

\* monthNum: the number of a month given by name or by digits
MonthNumber(month) == IF isNaN(month) THEN parseMonthName(month) ELSE parseInt(month)[1]

\* a yearNum that takes the year of the clock whatever the text says, which a
\* reparse in another year tells from YearNumber
YearOfClock(year, thisYear) == thisYear

\* yearNum: a year of two digits is 20xx, no year is the year of the clock
YearNumber(year, thisYear) ==
    IF year /= Null
    THEN IF Len(year) = 2 THEN 2000 + parseInt(year)[1] ELSE parseInt(year)[1]
    ELSE thisYear

\* the timestamp built from a match of one of the date patterns
DateTimeOfMatch(text, m, thisYear) ==
    toString(YearNumber(GroupText(text, m, "year"), thisYear))
    \o <<"-">> \o padStart2(toString(MonthNumber(GroupText(text, m, "month"))))
    \o <<"-">> \o padStart2(toString(parseInt(GroupText(text, m, "day"))[1]))
    \o <<"T">> \o TimeString(GroupText(text, m, "time"))

\* the match that begins first in the text among those of the patterns from the
\* k-th on, which a line with a month-name date before a numeric one tells from
\* FirstDateMatch
LeftmostDateMatch(text, k) ==
    LET found == {j \in k..Len(DatePatterns) : match(text, DatePatterns[j]) /= NoMatch}
        first == CHOOSE j \in found : \A i \in found :
                     \/ match(text, DatePatterns[j]).b < match(text, DatePatterns[i]).b
                     \/ /\ match(text, DatePatterns[j]).b = match(text, DatePatterns[i]).b
                        /\ j <= i
    IN  IF found = {} THEN NoMatch ELSE match(text, DatePatterns[first])

\* the first pattern, from the k-th on, that matches text
RECURSIVE FirstDateMatch(_, _), FirstOr(_, _, _)
FirstDateMatch(text, k) ==
    IF k > Len(DatePatterns) THEN NoMatch
    ELSE FirstOr(match(text, DatePatterns[k]), text, k)

\* the match m of the k-th pattern, or the first match of a later pattern
FirstOr(m, text, k) == IF m /= NoMatch THEN m ELSE FirstDateMatch(text, k + 1)

\* the timestamp for the first matching pattern: Null without a match
DateTimeOrNull(text, m, thisYear) ==
    IF m = NoMatch THEN Null ELSE DateTimeOfMatch(text, m, thisYear)

\* extractDateTime(text), run in calendar year thisYear: Null, or the
\* timestamp as text
extractDateTime(text, thisYear) == DateTimeOrNull(text, FirstDateMatch(text, 1), thisYear)

\* the two patterns of removeDateTime (g and i flags)
RemovePatterns ==
    <<  Cat(<<D12, Ch({"/"}), D12, Ch({"/"}), Rep(Ch(Digit), 2, 4), Star(Ch(Space)),
              Rep(Ch(Digit), 1, 4), Opt(Cat(<<Ch({":"}), Rep(Ch(Digit), 2, 2)>>)),
              Star(Ch(Space)), Opt(Alt(<<Word(<<"a", "m">>), Word(<<"p", "m">>)>>))>>),
        Cat(<<MonthName, Plus(Ch(Space)), D12, Opt(Ordinal), Star(SpaceOrComma),
              Opt(Rep(Ch(Digit), 4, 4)), Star(Ch(Space)),
              Rep(Ch(Digit), 1, 4), Opt(Cat(<<Ch({":"}), Rep(Ch(Digit), 2, 2)>>)),
              Star(Ch(Space)), Opt(Alt(<<Word(<<"a", "m">>), Word(<<"p", "m">>)>>))>>) >>

removeDateTime(text) ==
    replaceAll(replaceAll(text, RemovePatterns[1], 1), RemovePatterns[2], 1)

\* min(?:ute)?s?
MinWord == Cat(<<Word(<<"m", "i", "n">>), Opt(Word(<<"u", "t", "e">>)), Opt(Ch({"s"}))>>)

\* sec(?:ond)?s?
SecWord == Cat(<<Word(<<"s", "e", "c">>), Opt(Word(<<"o", "n", "d">>)), Opt(Ch({"s"}))>>)

\* the three patterns of extractDuration, in the order they are tried
DurationPatterns ==
    <<  Cat(<<Grp("minutes", Plus(Ch(Digit))), Star(Ch(Space)), MinWord,
              Opt(Cat(<<Star(Ch(Space)), Grp("seconds", Plus(Ch(Digit))),
                        Star(Ch(Space)), SecWord>>))>>),
        Cat(<<Grp("seconds", Plus(Ch(Digit))), Star(Ch(Space)), SecWord>>),
        Cat(<<Grp("minutes", Plus(Ch(Digit))), Ch({":"}), Grp("seconds", Plus(Ch(Digit))),
              NotAhead(Cat(<<Star(Ch(Space)), Alt(<<Word(<<"a", "m">>), Word(<<"p", "m">>)>>)>>))>>) >>

\* parseInt(group || 0)
GroupNumber(text, m, name) ==
    IF GroupText(text, m, name) = Null THEN 0 ELSE parseInt(GroupText(text, m, name))[1]

RECURSIVE DurationFrom(_, _), DurationOr(_, _, _)
DurationFrom(text, k) ==
    IF k > Len(DurationPatterns) THEN [minutes |-> 0, seconds |-> 0]
    ELSE DurationOr(match(text, DurationPatterns[k]), text, k)

\* the duration of the match m of the k-th pattern, or that of a later pattern
DurationOr(m, text, k) ==
    IF m /= NoMatch
    THEN [minutes |-> GroupNumber(text, m, "minutes"),
          seconds |-> GroupNumber(text, m, "seconds")]
    ELSE DurationFrom(text, k + 1)

extractDuration(text) == DurationFrom(text, 1)

\* the trigger vocabulary, in the order of the source
triggers ==
    <<  <<"r", "a", "n", " ", "t", "o", " ", "d", "o", "o", "r">>, <<"r", "a", "n", " ", "t", "o">>, <<"c", "a", "m", "e", " ", "h", "o", "m", "e">>, <<"d", "o", "o", "r", " ", "o", "p", "e", "n", "e", "d">>, <<"k", "n", "o", "c", "k", "e", "d">>,
        <<"r", "u", "n", "n", "i", "n", "g">>, <<"p", "l", "a", "y", "i", "n", "g">>, <<"e", "x", "e", "r", "c", "i", "s", "e">>,
        <<"s", "l", "e", "e", "p", "i", "n", "g">>, <<"w", "o", "k", "e", " ", "u", "p">>, <<"r", "e", "s", "t", "i", "n", "g">>, <<"a", "s", "l", "e", "e", "p">>, <<"l", "a", "y", "i", "n", "g", " ", "d", "o", "w", "n">>,
        <<"a", "f", "t", "e", "r", " ", "e", "a", "t", "i", "n", "g">>, <<"c", "a", "l", "l", "e", "d", " ", "f", "o", "r", " ", "f", "o", "o", "d">>, <<"f", "o", "o", "d">>, <<"e", "a", "t", "i", "n", "g">>,
        <<"l", "o", "u", "d", " ", "n", "o", "i", "s", "e">>, <<"t", "h", "u", "n", "d", "e", "r">>, <<"f", "i", "r", "e", "w", "o", "r", "k", "s">>, <<"n", "o", "i", "s", "e">>,
        <<"s", "t", "r", "e", "s", "s">>, <<"e", "x", "c", "i", "t", "e", "m", "e", "n", "t">>, <<"h", "e", "a", "t">>, <<"f", "l", "a", "s", "h", "i", "n", "g", " ", "l", "i", "g", "h", "t", "s">>,
        <<"m", "e", "d", "i", "c", "a", "t", "i", "o", "n", " ", "c", "h", "a", "n", "g", "e">>, <<"m", "i", "s", "s", "e", "d", " ", "m", "e", "d", "i", "c", "a", "t", "i", "o", "n">>, <<"l", "a", "c", "k", " ", "o", "f", " ", "s", "l", "e", "e", "p">> >>

\* a loop that takes a phrase that is as long as the one found so far, which a
\* line with two longest phrases of one length tells from FindTrigger
RECURSIVE FindTriggerLast(_, _, _)
FindTriggerLast(lowerText, k, foundTrigger) ==
    IF k > Len(triggers) THEN foundTrigger
    ELSE IF includes(lowerText, triggers[k]) /\ Len(triggers[k]) >= Len(foundTrigger)
         THEN FindTriggerLast(lowerText, k + 1, triggers[k])
         ELSE FindTriggerLast(lowerText, k + 1, foundTrigger)

\* the loop of extractTrigger from the k-th phrase on, foundTrigger so far
RECURSIVE FindTrigger(_, _, _)
FindTrigger(lowerText, k, foundTrigger) ==
    IF k > Len(triggers) THEN foundTrigger
    ELSE IF includes(lowerText, triggers[k]) /\ Len(triggers[k]) > Len(foundTrigger)
         THEN FindTrigger(lowerText, k + 1, triggers[k])
         ELSE FindTrigger(lowerText, k + 1, foundTrigger)

\* the phrase found with its first letter in upper case, or Unknown
TriggerName(foundTrigger) ==
    IF foundTrigger /= <<>>
    THEN <<UpperChar(foundTrigger[1])>> \o Tail(foundTrigger)
    ELSE <<"U", "n", "k", "n", "o", "w", "n">>

extractTrigger(text) == TriggerName(FindTrigger(toLowerCase(text), 1, <<>>))

\* the value null where a record is expected
NoRecord == [none |-> TRUE]

\* the record of a line whose timestamp is dateTime: null without a timestamp
RecordOf(line, dateTime) ==
    IF dateTime = Null THEN NoRecord
    ELSE [dateTime |-> dateTime,
          duration |-> extractDuration(removeDateTime(line)),
          trigger |-> extractTrigger(line),
          description |-> trim(line)]

\* parseLine(line): null, or the record of the line
parseLine(line, thisYear) == RecordOf(line, extractDateTime(line, thisYear))

\* if (seizure) seizures.push(seizure)
Push(seizure) == IF seizure /= NoRecord THEN <<seizure>> ELSE <<>>

\* text.split(/\n+/): the pieces between the runs of line breaks, which are the
\* pieces between the single line breaks without the empty ones inside a run
SplitRuns(s) ==
    LET pieces == split(s, "\n")
    IN  Pick(pieces, {k \in 1..Len(pieces) :
                        k = 1 \/ k = Len(pieces) \/ pieces[k] /= <<>>})

\* a loop that ends at the first line without a date, which a dated line after
\* a dateless one tells from ParseLines
RECURSIVE ParseLinesUntilNull(_, _, _)
ParseLinesUntilNull(lines, k, thisYear) ==
    IF k > Len(lines) \/ parseLine(lines[k], thisYear) = NoRecord THEN <<>>
    ELSE <<parseLine(lines[k], thisYear)>> \o ParseLinesUntilNull(lines, k + 1, thisYear)

\* the forEach loop of parseSeizureText from the k-th line on
RECURSIVE ParseLines(_, _, _)
ParseLines(lines, k, thisYear) ==
    IF k > Len(lines) THEN <<>>
    ELSE Push(parseLine(lines[k], thisYear)) \o ParseLines(lines, k + 1, thisYear)

parseSeizureText(text, thisYear) ==
    ParseLines(Filter(SplitRuns(text)), 1, thisYear)

(***************************************************************************)
(* The Date object of the runtime, as far as parseCSV uses it              *)
(***************************************************************************)
isLeapYear(y) == (y % 4 = 0 /\ y % 100 /= 0) \/ y % 400 = 0

daysInMonth(y, m) ==
    IF m = 2 THEN (IF isLeapYear(y) THEN 29 ELSE 28)
    ELSE IF m \in {4, 6, 9, 11} THEN 30 ELSE 31

\* the value Invalid Date
InvalidDate == [valid |-> FALSE]

\* The numeric date form M/D/Y, then optionally H:MM[:SS] and AM or PM, which is
\* what the export writes (toLocaleDateString and toLocaleTimeString of en-US).
DateForm ==
    Cat(<<Star(Ch(Space)),
          Grp("month", Plus(Ch(Digit))), Ch({"/"}), Grp("day", Plus(Ch(Digit))), Ch({"/"}),
          Grp("year", Plus(Ch(Digit))),
          Opt(Cat(<<Plus(Ch(Space)),
                    Grp("hour", Plus(Ch(Digit))), Ch({":"}), Grp("minute", Plus(Ch(Digit))),
                    Opt(Cat(<<Ch({":"}), Grp("second", Plus(Ch(Digit)))>>)),
                    Star(Ch(Space)),
                    Opt(Grp("period", Alt(<<Word(<<"a", "m">>), Word(<<"p", "m">>)>>)))>>)),
          Star(Ch(Space)), AtEnd>>)

\* a year of one or two digits: below 50 it is 20xx, else 19xx
FullYear(y0) == IF y0 < 50 THEN 2000 + y0 ELSE IF y0 < 100 THEN 1900 + y0 ELSE y0

\* AM or PM in lower case, <<>> without one
PeriodText(period) == IF period = Null THEN <<>> ELSE toLowerCase(period)

\* an hour with AM or PM is 1..12, an hour without is 0..23
HourOk(h0, period) == IF period = <<>> THEN h0 <= 23 ELSE h0 >= 1 /\ h0 <= 12

\* the hour of the day
Hours24(h0, period) ==
    IF period = <<>> THEN h0 ELSE (h0 % 12) + (IF period = <<"p", "m">> THEN 12 ELSE 0)

\* The date of the fields read: Invalid Date for a month outside 1..12, a day
\* outside 1..31, an hour that is not one, a minute or second above 59. A day
\* past the end of its month runs on into the next month (MakeDay). The fields
\* are those the local-time getters return.
DateFields(year, month, day, hours, hourOk, mi, ss) ==
    IF month < 1 \/ month > 12 \/ day < 1 \/ day > 31 \/ ~hourOk \/ mi > 59 \/ ss > 59
    THEN InvalidDate
    ELSE [valid |-> TRUE,
          year |-> IF day > daysInMonth(year, month) /\ month = 12 THEN year + 1 ELSE year,
          month |-> IF day > daysInMonth(year, month) THEN (month % 12) + 1 ELSE month,
          day |-> IF day > daysInMonth(year, month)
                  THEN day - daysInMonth(year, month) ELSE day,
          hours |-> hours, minutes |-> mi]

\* the date of a text that matched DateForm with groups g
DateOfMatch(s, g) ==
    DateFields(FullYear(GroupNumber(s, g, "year")), GroupNumber(s, g, "month"),
               GroupNumber(s, g, "day"),
               Hours24(GroupNumber(s, g, "hour"), PeriodText(GroupText(s, g, "period"))),
               HourOk(GroupNumber(s, g, "hour"), PeriodText(GroupText(s, g, "period"))),
               GroupNumber(s, g, "minute"), GroupNumber(s, g, "second"))

\* the date of a text given the engine's matches ms of DateForm at its start
DateOfMatches(s, ms) ==
    IF ms = <<>> THEN InvalidDate
    ELSE DateOfMatch(s, [b |-> 1, e |-> ms[1].e, g |-> ms[1].g])

\* new Date(s) for a text s that is not in the ISO format: the fallback parser of
\* the engine (V8), restricted to DateForm; every other text is Invalid Date.
NewDate(s) == DateOfMatches(s, M(DateForm, s, 1, NoGroups))

(***************************************************************************)
(* BatchImport.js: format detection and the CSV parser                     *)
(***************************************************************************)
\* hasDate && hasOther of the lower-cased first line
isCSV(firstLine) ==
    /\ includes(firstLine, <<"d", "a", "t", "e">>)
    /\ \/ includes(firstLine, <<"t", "i", "m", "e">>)
       \/ includes(firstLine, <<"d", "u", "r", "a", "t", "i", "o", "n">>)
       \/ includes(firstLine, <<"t", "r", "i", "g", "g", "e", "r">>)

\* the decision of detectCSV for the lines of the trimmed text
DetectLines(lines) == IF Len(lines) < 2 THEN FALSE ELSE isCSV(toLowerCase(lines[1]))

\* a detection that does not trim the text first, which a text with blank lines
\* around its lines tells from detectCSV
detectCSVUntrimmed(text) == DetectLines(split(text, "\n"))

detectCSV(text) == DetectLines(split(trim(text), "\n"))

\* h.replace(/"/g, '')
removeQuotes(s) == Pick(s, {k \in 1..Len(s) : s[k] /= "\""})

\* the delimiter of the header line: a tab if it has one, else a comma
delimiterOf(firstLine) == IF includes(firstLine, <<"\t">>) THEN "\t" ELSE ","

csvHeaders(firstLine) ==
    LET cols == split(firstLine, delimiterOf(firstLine))
    IN  [k \in 1..Len(cols) |-> toLowerCase(trim(removeQuotes(cols[k])))]

\* a scan that never is inside quotes, which a row with a comma between quotes
\* tells from inQuotes
neverInQuotes(line, i) == FALSE

\* inQuotes when the scan of a comma-separated row reaches position i: every
\* quote before i has toggled it
inQuotes(line, i) == Cardinality({j \in 1..(i - 1) : line[j] = "\""}) % 2 = 1

\* The quote-aware scan of a comma-separated row. A quote is never added to the
\* current value, a comma outside quotes ends it, the end of the line ends the
\* last one, and every value is trimmed when it is pushed.
ScanRow(line) ==
    LET cols == SplitAt(line, {i \in 1..Len(line) : line[i] = "," /\ ~inQuotes(line, i)})
    IN  [k \in 1..Len(cols) |-> trim(removeQuotes(cols[k]))]

rowValues(line, delimiter) ==
    IF delimiter = "\t"
    THEN LET cols == split(line, "\t") IN [k \in 1..Len(cols) |-> trim(cols[k])]
    ELSE ScanRow(line)

\* a search for the header token that is the word itself, which a header
\* Seizure Date tells from findIndex
findEqual(headers, word) ==
    LET hit == {k \in 1..Len(headers) : headers[k] = word}
    IN  IF hit = {} THEN 0 ELSE CHOOSE k \in hit : \A j \in hit : k <= j

\* headers.findIndex(h => h.includes(word)), as a position from 1, 0 for -1
findIndex(headers, word) ==
    LET hit == {k \in 1..Len(headers) : includes(headers[k], word)}
    IN  IF hit = {} THEN 0 ELSE CHOOSE k \in hit : \A j \in hit : k <= j

\* a read that takes the first value of the row for a column that is not
\* there, which a text without a minutes column tells from Field
FieldOrFirst(values, idx) == IF idx \in 1..Len(values) THEN values[idx] ELSE values[1]

\* values[idx]: undefined outside the array
Field(values, idx) == IF idx \in 1..Len(values) THEN values[idx] ELSE Null

\* values[idx] || ''
FieldOrEmpty(values, idx) == IF Field(values, idx) = Null THEN <<>> ELSE Field(values, idx)

\* the record of a data row with the values read and the Date of its date and
\* time fields: none for an invalid date
csvRecord(dateTime, values, headers) ==
    IF ~dateTime.valid THEN NoRecord
    ELSE [dateTime |-> toString(dateTime.year)
                       \o <<"-">> \o padStart2(toString(dateTime.month))
                       \o <<"-">> \o padStart2(toString(dateTime.day))
                       \o <<"T">> \o padStart2(toString(dateTime.hours))
                       \o <<":">> \o padStart2(toString(dateTime.minutes)),
          duration |->
              [minutes |-> OrZero(parseInt(Field(values, findIndex(headers, <<"m", "i", "n">>)))),
               seconds |-> OrZero(parseInt(Field(values, findIndex(headers, <<"s", "e", "c">>))))],
          trigger |-> FieldOrEmpty(values, findIndex(headers, <<"t", "r", "i", "g", "g", "e", "r">>)),
          description |-> FieldOrEmpty(values, findIndex(headers, <<"d", "e", "s", "c">>))]

\* the record of the values of one data row
csvValues(values, headers) ==
    csvRecord(NewDate(FieldOrEmpty(values, findIndex(headers, <<"d", "a", "t", "e">>))
                      \o <<" ">>
                      \o FieldOrEmpty(values, findIndex(headers, <<"t", "i", "m", "e">>))),
              values, headers)

\* the record of one data row: none for a row whose date is invalid
csvRow(line, headers, delimiter) == csvValues(rowValues(line, delimiter), headers)

\* what one trimmed line adds to the records: nothing for an empty line
csvLine(line, headers, delimiter) ==
    IF line = <<>> THEN <<>> ELSE Push(csvRow(line, headers, delimiter))

\* the loop of parseCSV over the data rows, from line i on
RECURSIVE csvRows(_, _, _, _)
csvRows(lines, i, headers, delimiter) ==
    IF i > Len(lines) THEN <<>>
    ELSE csvLine(trim(lines[i]), headers, delimiter)
         \o csvRows(lines, i + 1, headers, delimiter)

\* parseCSV for the lines of the trimmed text
csvLines(lines) == csvRows(lines, 2, csvHeaders(lines[1]), delimiterOf(lines[1]))

parseCSV(csvText) == csvLines(split(trim(csvText), "\n"))

\* the parsing of handleParse: the records staged for a text
parseInput(text, thisYear) ==
    IF detectCSV(text) THEN parseCSV(text)
    ELSE parseSeizureText(text, thisYear)

(***************************************************************************)
(* Bounds and inputs                                                       *)
(***************************************************************************)
\* presses of Parse in one behaviour
MaxParses == 2

\* presses of Import in one behaviour
MaxImports == 2

\* edits of a preview field in one behaviour
MaxEdits == 1

\* turns of the calendar year in one behaviour
MaxYearTicks == 1

\* steps of one behaviour
MaxSteps == 9

\* the texts pasted into the textarea while the commit protocol is explored
ImportTexts ==
    {   <<"6", "/", "1", "/", "2", "4", " ", "9", "p", "m", " ", "2", " ", "m", "i", "n", " ", "w", "o", "k", "e", " ", "u", "p", "\n", "\n", "J", "u", "n", "e", " ", "3", " ", "a", "r", "o", "u", "n", "d", " ", "3", ":", "3", "0", "p", "m", " ", "9", "0", " ", "s", "e", "c", "o", "n", "d", "s", "\n", "n", "o", " ", "d", "a", "t", "e", "\n", "5", "/", "3", "/", "2", "4", " ", "c">>,
        <<"D", "a", "t", "e", ",", "T", "i", "m", "e", ",", "M", "i", "n", ",", "S", "e", "c", ",", "T", "r", "i", "g", "g", "e", "r", ",", "D", "e", "s", "c", "\n", "6", "/", "1", "6", "/", "2", "0", "2", "4", ",", "2", "1", ":", "0", "0", ",", "2", ",", "0", ",", "W", "o", "k", "e", " ", "u", "p", ",", "a", "\n", "1", "3", "/", "4", "5", "/", "2", "0", "2", "4", ",", "9", ":", "0", "0", ",", "1", ",", "1", ",", "x", ",", "b", "\n", "6", "/", "1", "7", "/", "2", "0", "2", "4", ",", "8", ":", "0", "6", " ", "P", "M", ",", "1", ",", "7", "5", ",", "S", "t", "r", "e", "s", "s", ",", "c">> }

\* the third line of the example the import view shows to the user
UsageExample == <<"J", "u", "n", "e", " ", "2", "0", " ", "a", "r", "o", "u", "n", "d", " ", "3", ":", "3", "0", "p", "m", " ", "-", " ", "1", " ", "m", "i", "n", "u", "t", "e", " ", "4", "5", " ", "s", "e", "c", "o", "n", "d", "s", ",", " ", "l", "o", "u", "d", " ", "n", "o", "i", "s", "e", ",", " ", "f", "i", "r", "e", "w", "o", "r", "k", "s">>

\* the texts the parsers are run on
ParseTexts ==
    {   UsageExample,
        <<"J", "u", "n", "e", " ", "1", "6", ",", " ", "2", "0", "2", "4", " ", "9", "p", "m", " ", "-", " ", "2", " ", "m", "i", "n", " ", "s", "e", "i", "z", "u", "r", "e", ",", " ", "w", "o", "k", "e", " ", "u", "p", " ", "s", "u", "d", "d", "e", "n", "l", "y">>,
        <<"1", "3", "/", "4", "5", "/", "2", "0", "2", "4", " ", "s", "e", "i", "z", "u", "r", "e">>,
        <<"6", "/", "1", "6", "/", "2", "0", "2", " ", "x">>,
        <<"6", "/", "1", "6", "/", "2", "0", "2", "4", " ", "3", ":", "9", "9", "p", "m">>,
        <<"2", "/", "3", "0", "/", "2", "0", "2", "4", " ", "s", "h", "o", "r", "t">>,
        <<"6", "/", "1", "6", "/", "2", "0", "2", "4", " ", "-", " ", "9", "0", " ", "s", "e", "c", "o", "n", "d", "s">>,
        <<"6", "/", "1", "6", "/", "2", "0", "2", "4", " ", "l", "a", "s", "t", "e", "d", " ", "1", ":", "7", "5">>,
        <<"n", "o", " ", "d", "a", "t", "e", " ", "h", "e", "r", "e">>,
        <<"J", "u", "n", "e", " ", "5", "t", "h", " ", "a", "t", " ", "8", "p", "m", " ", "s", "t", "r", "e", "s", "s", " ", "3", "0", " ", "s", "e", "c">>,
        <<"\n", "\n", "6", "/", "1", "/", "2", "4", " ", "a", "\n", " ", " ", " ", "\n", "n", "o", "t", "h", "i", "n", "g", "\n", "J", "u", "n", "e", " ", "3", " ", "b", "\n", "\n">>,
        <<"n", "o", "t", "h", "i", "n", "g", "\r", "\n", "6", "/", "1", "/", "2", "4", " ", "a", "\r", "\n">>,
        <<"6", "/", "1", "/", "2", "4", " ", "a", "\n", "6", "/", "1", "/", "2", "4", " ", "a">>,
        <<"D", "a", "t", "e", ",", "T", "i", "m", "e", ",", "T", "r", "i", "g", "g", "e", "r", "\n", "6", "/", "1", "6", "/", "2", "0", "2", "4", ",", "2", "1", ":", "0", "0", ",", "S", "t", "r", "e", "s", "s">>,
        <<"D", "A", "T", "E", ",", "D", "U", "R", "A", "T", "I", "O", "N", "\n", "6", "/", "1", "6", "/", "2", "0", "2", "4", ",", "2">>,
        <<"\n", "\n", "D", "a", "t", "e", ",", "T", "i", "m", "e", "\n", "6", "/", "1", "6", "/", "2", "0", "2", "4", ",", "9", ":", "0", "0", " ", "P", "M", "\n">>,
        <<"D", "a", "t", "e", ",", "T", "i", "m", "e">>,
        <<"D", "a", "t", "e", ",", "T", "i", "m", "e", "\n", "\n", " ", " ", "\n">>,
        <<"D", "a", "t", "e", " ", "o", "n", "l", "y", "\n", "6", "/", "1", "6", "/", "2", "0", "2", "4", " ", "9", "p", "m">>,
        <<"T", "i", "m", "e", ",", "T", "r", "i", "g", "g", "e", "r", "\n", "6", "/", "1", "6", "/", "2", "0", "2", "4", " ", "9", "p", "m", " ", "x">>,
        <<"u", "p", "d", "a", "t", "e", " ", "o", "n", " ", "t", "i", "m", "i", "n", "g", "\n", "J", "u", "n", "e", " ", "5", " ", "9", "p", "m">>,
        <<"6", "/", "1", "/", "2", "4", " ", "9", "p", "m", " ", "f", "i", "r", "s", "t", "\n", "D", "a", "t", "e", ",", "T", "i", "m", "e", ",", "x">>,
        <<"C", "a", "n", "d", "i", "d", "a", "t", "e", " ", "t", "r", "i", "g", "g", "e", "r", " ", "l", "i", "s", "t", "\n", "6", "/", "2", "/", "2", "0", "2", "4">>,
        <<"1", "6", " ", "J", "u", "n", "e", " ", "2", "0", "2", "4", " ", "9", "p", "m">>,
        <<"1", "6", " ", "J", "u", "n", "e", " ", "9", "p", "m">>,
        <<"6", "/", "1", "6", "/", "2", "0", "2", "4", " ", "2", "1", ":", "3", "0", " ", "w", "o", "k", "e", " ", "u", "p">>,
        <<"6", "/", "1", "6", "/", "2", "0", "2", "4", " ", "s", "e", "i", "z", "u", "r", "e", " ", "a", "t", " ", "3", ":", "3", "9", "p", "m">>,
        <<"6", "/", "1", "/", "2", "4", " ", "s", "l", "e", "e", "p", "i", "n", "g", " ", "a", "f", "t", "e", "r", " ", "e", "x", "e", "r", "c", "i", "s", "e">>,
        <<"6", "/", "2", "/", "2", "4", " ", "C", "a", "l", "l", "e", "d", " ", "f", "o", "r", " ", "F", "O", "O", "D", ",", " ", "r", "a", "n", " ", "t", "o", " ", "d", "o", "o", "r">>,
        <<"D", "a", "t", "e", ",", "T", "i", "m", "e", ",", "T", "r", "i", "g", "g", "e", "r", ",", "D", "e", "s", "c", "r", "i", "p", "t", "i", "o", "n", "\n", "6", "/", "1", "6", "/", "2", "0", "2", "4", ",", "9", ":", "0", "0", " ", "P", "M", ",", " ", "\"", "L", "o", "u", "d", " ", "n", "o", "i", "s", "e", "\"", " ", ",", "\"", "f", "e", "l", "l", ",", " ", "t", "h", "e", "n", " ", "\"", "\"", "s", "h", "o", "o", "k", "\"", "\"", " ", "h", "a", "r", "d", "\"", "\n", "6", "/", "1", "7", "/", "2", "0", "2", "4", ",", ",", "V", "e", "t", " ", "v", "i", "s", "i", "t", ",", "a", "\"", "b", "\n">>,
        <<"6", "/", "1", "8", "/", "2", "4", " ", "2", " ", "m", "i", "n">>,
        <<"6", "/", "1", "6", "/", "2", "0", "2", "4", " ", "3", "0", " ", "s", "e", "c", "o", "n", "d", "s">>,
        <<"J", "u", "n", "e", " ", "2", "0", " ", "1", "1", "4", "0", "p", "m">>,
        <<"J", "u", "n", "e", " ", "2", "0", " ", "2", "0", "2", "4", " ", "f", "o", "l", "l", "o", "w", "-", "u", "p", " ", "o", "f", " ", "6", "/", "1", "/", "2", "4", " ", "9", "p", "m">>,
        <<"6", "/", "1", "/", "2", "4", " ", "9", "p", "m", " ", "s", "e", "e", " ", "J", "u", "n", "e", " ", "2", "0", " ", "2", "0", "2", "4">>,
        <<"D", "a", "t", "e", ",", "T", "i", "m", "e", ",", "M", "i", "n", ",", "S", "e", "c", "\n", "6", "/", "1", "6", "/", "2", "0", "2", "4", ",", "9", ":", "0", "0", " ", "P", "M", ",", "a", "b", "c", ",", "\n", "6", "/", "1", "7", "/", "2", "0", "2", "4", ",", "9", ":", "0", "0", " ", "P", "M", ",", "t", "w", "o", ",", "x", "1", "\n", "6", "/", "1", "8", "/", "2", "0", "2", "4", ",", "9", ":", "0", "0", " ", "P", "M", ",", "3", ",", "4">>,
        <<"D", "a", "t", "e", ",", "D", "u", "r", "a", "t", "i", "o", "n", "\n", "6", "/", "1", "6", "/", "2", "0", "2", "4", ",", "2">>,
        <<"\"", "S", "e", "i", "z", "u", "r", "e", " ", "D", "a", "t", "e", "\"", "\t", "\"", "T", "i", "m", "e", "\"", "\n", "6", "/", "1", "6", "/", "2", "0", "2", "4", "\t", "9", ":", "0", "0", " ", "P", "M">>,
        <<"\"", "S", "e", "i", "z", "u", "r", "e", " ", "D", "a", "t", "e", "\"", ",", "\"", "T", "i", "m", "e", "\"", "\n", "6", "/", "1", "6", "/", "2", "0", "2", "4", ",", "9", ":", "0", "0", " ", "P", "M">> }

\* what the user can type into a field of a preview row: the field and the
\* value of the input element
EditInputs ==
    {   <<"minutes", <<"-", "2">>>>, <<"seconds", <<"7", "5">>>>,
        <<"description", <<"x">>>>, <<"dateTime", <<>>>> }

(***************************************************************************)
(* State                                                                   *)
(***************************************************************************)
VARIABLES
    inputText,       \* BatchImport: the text of the textarea
    parsedSeizures,  \* BatchImport: the staged records, as references into heap
    isPreview,       \* BatchImport: the preview is shown
    importing,       \* BatchImport: a commit run is in progress
    importResults,   \* BatchImport: the tally shown, or NoResults (null)
    heap,            \* the record objects the staged arrays refer to
    nextRef,         \* the next fresh reference
    runs,            \* the calls of handleImport that have not returned yet
    seizures,        \* database.js: the records in memory
    nextId,          \* database.js: the next record id
    storage,         \* database.js: what localStorage holds under DB_STORAGE_KEY
    currentYear,     \* the calendar year of the clock
    callLog,         \* history: every call of addSeizure, in order
    done,            \* history: the commit runs that have returned
    parseLog,        \* history: the text, year and records of every Parse
    edits,           \* history: edits made
    imports,         \* history: presses of Import
    steps,           \* history: steps taken
    app,             \* App: the values of its useState hooks
    appLog           \* history: the edit form on display and the calls of handleSubmit

component == <<inputText, parsedSeizures, isPreview, importing, importResults>>

store == <<seizures, nextId, storage>>

history == <<callLog, done, parseLog, edits, imports>>

vars == <<inputText, parsedSeizures, isPreview, importing, importResults, heap, nextRef,
          runs, seizures, nextId, storage, currentYear, callLog, done, parseLog,
          edits, imports, steps, app, appLog>>

appVars == <<app, appLog>>

\* importResults = null
NoResults == [none |-> TRUE]

\* the record objects a sequence of references stands for
Deref(h, refs) == [k \in 1..Len(refs) |-> h[refs[k]]]

\* the references still held: by the staged array or by a run's batch
Held(staged, rs) ==
    {staged[k] : k \in 1..Len(staged)}
    \cup UNION {{rs[i].batch[k] : k \in 1..Len(rs[i].batch)} : i \in 1..Len(rs)}

\* the heap without the objects nothing refers to any more
Collect(h, staged, rs) == [r \in (DOMAIN h) \cap Held(staged, rs) |-> h[r]]

(***************************************************************************)
(* App.js: the state of App                                                *)
(***************************************************************************)
\* error = null
NoError == "null"

\* editingSeizure = null
NotEditing == [none |-> TRUE]

\* the five fields of the log form, all empty
EmptyForm ==
    [dateTime |-> <<>>, durationMinutes |-> <<>>, durationSeconds |-> <<>>,
     description |-> <<>>, trigger |-> <<>>]

\* the useState values of App once initialize has loaded the records
AppLoaded(records) ==
    [seizures |-> records, view |-> "log", isLoading |-> FALSE, error |-> NoError,
     form |-> EmptyForm, editingSeizure |-> NotEditing]

\* App over a store without records
AppMounted == AppLoaded(<<>>)

\* no edit form on display and no call of handleSubmit yet
NoSubmits == [opened |-> 0, calls |-> <<>>, reloads |-> 0]

(***************************************************************************)
(* database.js: the record store                                           *)
(***************************************************************************)
\* the ways a call of addSeizure ends: saved, or setItem of saveDB threw
Outcomes == {"ok", "saveFailed"}

\* the record addSeizure builds from the staged record
newSeizure(seizure, id) ==
    [id |-> id,
     dateTime |-> seizure.dateTime,
     duration_minutes |-> seizure.duration.minutes,
     duration_seconds |-> seizure.duration.seconds,
     description |-> seizure.description,
     trigger |-> seizure.trigger]

\* saveDB(): localStorage.setItem of the records and nextId, unless it throws;
\* storage is <<>> while nothing is stored under the key
saveDB(outcome, recs, id) ==
    storage' = IF outcome = "ok" THEN <<[seizures |-> recs, nextId |-> id]>> ELSE storage

\* addSeizure(seizure): the record gets the next id and is pushed, then saveDB
addSeizure(seizure, outcome) ==
    /\ seizures' = Append(seizures, newSeizure(seizure, nextId))
    /\ nextId' = nextId + 1
    /\ saveDB(outcome, seizures', nextId')

(***************************************************************************)
(* BatchImport.js: the component                                           *)
(***************************************************************************)
\* the state of a freshly mounted BatchImport
Mounted(text, staged, preview, busy, results) ==
    /\ text = <<>>
    /\ staged = <<>>
    /\ preview = FALSE
    /\ busy = FALSE
    /\ results = NoResults

\* the calendar years a behaviour passes through
Years == 2026..(2026 + MaxYearTicks)

\* parseInput of the texts and years of the model, evaluated once
ParseTable ==
    {<<text, year, parseInput(text, year)>> : text \in ImportTexts \cup ParseTexts, year \in Years}

\* the records of the one entry, or parseInput(text, year) without an entry
FromTable(entries, text, year) ==
    IF entries = {} THEN parseInput(text, year) ELSE (CHOOSE e \in entries : TRUE)[3]

\* parseInput(text, year), read from ParseTable where it is there
Parsed(text, year) ==
    FromTable({e \in ParseTable : e[1] = text /\ e[2] = year}, text, year)

\* setParsedSeizures(seizures): new record objects, and the array of them staged
setParsedSeizures(found) ==
    /\ parsedSeizures' = [k \in 1..Len(found) |-> nextRef + k - 1]
    /\ heap' = Collect([r \in (DOMAIN heap) \cup (nextRef..(nextRef + Len(found) - 1)) |->
                           IF r \in DOMAIN heap THEN heap[r] ELSE found[r - nextRef + 1]],
                       parsedSeizures', runs)
    /\ nextRef' = nextRef + Len(found)

\* onChange of the textarea, which is rendered while there is no preview
setInputText(text) ==
    /\ ~isPreview
    /\ inputText' = text
    /\ UNCHANGED <<parsedSeizures, isPreview, importing, importResults, heap, nextRef,
                   runs, store, currentYear>>

\* the Parse button: rendered while there is no preview, disabled for blank text
handleParse ==
    /\ ~isPreview
    /\ trim(inputText) /= <<>>
    /\ setParsedSeizures(Parsed(inputText, currentYear))
    /\ isPreview' = TRUE
    /\ importResults' = NoResults
    /\ UNCHANGED <<inputText, importing, runs, store, currentYear>>

\* the value handleEdit stores in a field
EditedValue(field, value) ==
    IF field \in {"minutes", "seconds"} THEN OrZero(parseInt(value)) ELSE value

\* onChange of a field of preview row index: the record object is changed in
\* place and a new array of the same objects is staged
handleEdit(index, field, value) ==
    /\ isPreview
    /\ index \in 1..Len(parsedSeizures)
    /\ LET ref == parsedSeizures[index]
       IN  heap' =
             [heap EXCEPT ![ref] =
                IF field = "minutes"
                THEN [@ EXCEPT !.duration.minutes = EditedValue(field, value)]
                ELSE IF field = "seconds"
                THEN [@ EXCEPT !.duration.seconds = EditedValue(field, value)]
                ELSE IF field = "dateTime" THEN [@ EXCEPT !.dateTime = value]
                ELSE IF field = "trigger" THEN [@ EXCEPT !.trigger = value]
                ELSE [@ EXCEPT !.description = value]]
    /\ UNCHANGED <<inputText, parsedSeizures, isPreview, importing, importResults, nextRef,
                   runs, store, currentYear>>

\* a remove button that hands the row to the store, which the state of the store
\* before any Import tells from handleRemove
handleRemoveStoring(index) ==
    /\ isPreview
    /\ index \in 1..Len(parsedSeizures)
    /\ addSeizure(heap[parsedSeizures[index]], "ok")
    /\ parsedSeizures' = Pick(parsedSeizures, (1..Len(parsedSeizures)) \ {index})
    /\ heap' = Collect(heap, parsedSeizures', runs)
    /\ UNCHANGED <<inputText, isPreview, importing, importResults, nextRef,
                   runs, currentYear>>

\* the remove button of preview row index
handleRemove(index) ==
    /\ isPreview
    /\ index \in 1..Len(parsedSeizures)
    /\ parsedSeizures' = Pick(parsedSeizures, (1..Len(parsedSeizures)) \ {index})
    /\ heap' = Collect(heap, parsedSeizures', runs)
    /\ UNCHANGED <<inputText, isPreview, importing, importResults, nextRef,
                   runs, store, currentYear>>

\* Try Again, Start Over and Import More: rendered in the preview
handleReset ==
    /\ isPreview
    /\ inputText' = <<>>
    /\ parsedSeizures' = <<>>
    /\ isPreview' = FALSE
    /\ importResults' = NoResults
    /\ heap' = Collect(heap, <<>>, runs)
    /\ UNCHANGED <<importing, nextRef, runs, store, currentYear>>

\* an Import button that stays enabled while importing, which two inserts in
\* flight tell from ImportEnabled
ImportEnabledWhileImporting == isPreview /\ Len(parsedSeizures) > 0

\* the Import button is rendered with the preview table and disabled while
\* importing or with nothing staged
ImportEnabled == isPreview /\ Len(parsedSeizures) > 0 /\ ~importing

\* a call of handleImport that has not returned: its array of records, the
\* position of the record whose insert is awaited, how that insert will end,
\* and its tally
NewRun(id, batch, outcome) ==
    [id |-> id, batch |-> batch, k |-> 1, pending |-> outcome,
     results |-> [success |-> 0, failed |-> 0, errors |-> <<>>]]

\* the entry pushed to results.errors: the first 50 characters of the record's
\* description and the message of the error (ref names the record)
ErrorEntry(ref, seizure, outcome) ==
    [ref |-> ref,
     description |-> SubSeq(seizure.description, 1,
                            IF Len(seizure.description) < 50
                            THEN Len(seizure.description) ELSE 50),
     message |-> outcome]

\* a tally without the catch: a failed insert is not counted, which the sum of
\* the tally tells from Tally
TallyWithoutCatch(run, h) ==
    IF run.pending = "ok" THEN [run.results EXCEPT !.success = @ + 1] ELSE run.results

\* the try and catch around one awaited insert: the tally after the insert of
\* the run's current record has ended
Tally(run, h) ==
    IF run.pending = "ok"
    THEN [run.results EXCEPT !.success = @ + 1]
    ELSE [run.results EXCEPT
            !.failed = @ + 1,
            !.errors = Append(@, ErrorEntry(run.batch[run.k], h[run.batch[run.k]],
                                            run.pending))]

\* the Import button: handleImport runs up to its first await
handleImportStart(outcome) ==
    /\ ImportEnabled
    /\ importing' = TRUE
    /\ addSeizure(heap[parsedSeizures[1]], outcome)
    /\ runs' = Append(runs, NewRun(imports + 1, parsedSeizures, outcome))
    /\ UNCHANGED <<inputText, parsedSeizures, isPreview, importResults, heap, nextRef,
                   currentYear>>

\* onImportComplete is loadSeizuresFromDB of App: it shows the loading view in
\* place of BatchImport and then renders BatchImport again, which mounts it anew,
\* when the loading view gets rendered (remount); when the two updates of
\* isLoading are rendered as one, the component stays as it is.
onImportComplete(remount, results) ==
    IF remount
    THEN Mounted(inputText', parsedSeizures', isPreview', importing', importResults')
    ELSE /\ importResults' = results
         /\ importing' = FALSE
         /\ UNCHANGED <<inputText, parsedSeizures, isPreview>>

\* handleImport resumes after the awaited insert of run i: the tally, then the
\* insert of the next record, or the end of the loop
handleImportResume(i, outcome, remount) ==
    /\ i \in 1..Len(runs)
    /\ LET run == runs[i]
           results == Tally(run, heap)
       IN  IF run.k < Len(run.batch)
           THEN /\ addSeizure(heap[run.batch[run.k + 1]], outcome)
                /\ runs' = [runs EXCEPT ![i] =
                              [run EXCEPT !.k = run.k + 1, !.pending = outcome,
                                          !.results = results]]
                /\ ~remount
                /\ UNCHANGED <<component, heap>>
           ELSE /\ outcome = "ok"
                /\ runs' = Pick(runs, (1..Len(runs)) \ {i})
                /\ IF results.success > 0
                   THEN onImportComplete(remount, results)
                   ELSE /\ ~remount
                        /\ importResults' = results
                        /\ importing' = FALSE
                        /\ UNCHANGED <<inputText, parsedSeizures, isPreview>>
                /\ heap' = Collect(heap, parsedSeizures', runs')
                /\ UNCHANGED store
    /\ UNCHANGED <<nextRef, currentYear>>

(***************************************************************************)
(* The import view and the store as a state machine                        *)
(***************************************************************************)
\* BatchImport is mounted, database.js is loaded and nothing is stored
Init ==
    /\ Mounted(inputText, parsedSeizures, isPreview, importing, importResults)
    /\ heap = <<>>
    /\ nextRef = 1
    /\ runs = <<>>
    /\ seizures = <<>>
    /\ nextId = 1
    /\ storage = <<>>
    /\ currentYear = 2026
    /\ callLog = <<>>
    /\ done = <<>>
    /\ parseLog = <<>>
    /\ edits = 0
    /\ imports = 0
    /\ steps = 0
    /\ app = [AppLoaded(<<>>) EXCEPT !.view = "batchImport"]
    /\ appLog = NoSubmits

\* a call of addSeizure as the history keeps it
Call(run, ref, outcome) == [run |-> run, ref |-> ref, outcome |-> outcome, settled |-> FALSE]

\* the history after the awaited call of run id has ended
Settled(log, id) ==
    [n \in 1..Len(log) |-> IF log[n].run = id THEN [log[n] EXCEPT !.settled = TRUE] ELSE log[n]]

\* one more step of the behaviour
Tick == steps < MaxSteps /\ steps' = steps + 1

\* the user pastes a text
TypeText ==
    /\ Tick
    /\ UNCHANGED appVars
    /\ \E text \in ImportTexts : setInputText(text)
    /\ UNCHANGED history

\* the user presses Parse
Parse ==
    /\ Tick
    /\ UNCHANGED appVars
    /\ Len(parseLog) < MaxParses
    /\ handleParse
    /\ parseLog' = Append(parseLog, [text |-> inputText, year |-> currentYear,
                                     csv |-> detectCSV(inputText),
                                     records |-> Deref(heap', parsedSeizures')])
    /\ UNCHANGED <<callLog, done, edits, imports>>

\* the user changes a field of a preview row
Edit ==
    /\ Tick
    /\ UNCHANGED appVars
    /\ edits < MaxEdits
    /\ \E index \in 1..Len(parsedSeizures), input \in EditInputs :
          handleEdit(index, input[1], input[2])
    /\ edits' = edits + 1
    /\ UNCHANGED <<callLog, done, parseLog, imports>>

\* the user removes a preview row
Remove ==
    /\ Tick
    /\ UNCHANGED appVars
    /\ \E index \in 1..Len(parsedSeizures) : handleRemove(index)
    /\ UNCHANGED history

\* the user presses Try Again, Start Over or Import More
Reset ==
    /\ Tick
    /\ UNCHANGED appVars
    /\ handleReset
    /\ UNCHANGED history

\* the user presses Import
Import ==
    /\ Tick
    /\ UNCHANGED appVars
    /\ imports < MaxImports
    /\ \E outcome \in Outcomes :
          /\ handleImportStart(outcome)
          /\ callLog' = Append(callLog, Call(imports + 1, parsedSeizures[1], outcome))
    /\ imports' = imports + 1
    /\ UNCHANGED <<done, parseLog, edits>>

\* an awaited insert ends and its handleImport goes on
Resume ==
    \E i \in 1..Len(runs), outcome \in Outcomes, remount \in BOOLEAN :
        /\ Tick
        /\ UNCHANGED appVars
        /\ handleImportResume(i, outcome, remount)
        /\ IF runs[i].k < Len(runs[i].batch)
           THEN /\ callLog' = Append(Settled(callLog, runs[i].id),
                                     Call(runs[i].id, runs[i].batch[runs[i].k + 1], outcome))
                /\ UNCHANGED done
           ELSE /\ callLog' = Settled(callLog, runs[i].id)
                /\ done' = Append(done, [id |-> runs[i].id, batch |-> runs[i].batch,
                                         results |-> Tally(runs[i], heap)])
        /\ UNCHANGED <<parseLog, edits, imports>>

Next == TypeText \/ Parse \/ Edit \/ Remove \/ Reset \/ Import \/ Resume

Spec == Init /\ [][Next]_vars

(***************************************************************************)
(* The parsers on their own: a pasted text is parsed, and parsed again     *)
(***************************************************************************)
\* a text is in the textarea of the freshly mounted view
InitParse ==
    /\ inputText \in ParseTexts
    /\ parsedSeizures = <<>>
    /\ isPreview = FALSE
    /\ importing = FALSE
    /\ importResults = NoResults
    /\ heap = <<>>
    /\ nextRef = 1
    /\ runs = <<>>
    /\ seizures = <<>>
    /\ nextId = 1
    /\ storage = <<>>
    /\ currentYear = 2026
    /\ callLog = <<>>
    /\ done = <<>>
    /\ parseLog = <<>>
    /\ edits = 0
    /\ imports = 0
    /\ steps = 0
    /\ app = [AppLoaded(<<>>) EXCEPT !.view = "batchImport"]
    /\ appLog = NoSubmits

\* the user pastes the text of the first Parse again
Retype ==
    /\ Tick
    /\ UNCHANGED appVars
    /\ parseLog /= <<>>
    /\ setInputText(parseLog[1].text)
    /\ UNCHANGED history

\* the calendar year turns
YearTick ==
    /\ Tick
    /\ UNCHANGED appVars
    /\ currentYear < 2026 + MaxYearTicks
    /\ currentYear' = currentYear + 1
    /\ UNCHANGED <<component, heap, nextRef, runs, store, history>>

NextParse == Parse \/ Reset \/ Retype \/ YearTick

SpecParse == InitParse /\ [][NextParse]_vars

(***************************************************************************)
(* Properties of the commit run                                            *)
(***************************************************************************)
\* the calls of addSeizure made by the commit run id, in the order made
CallsOf(id) == Pick(callLog, {c \in 1..Len(callLog) : callLog[c].run = id})

\* the positions of those calls that failed
FailedOf(calls) == {k \in 1..Len(calls) : calls[k].outcome /= "ok"}

\* the calls are those of the first records of the batch, in batch order
InBatchOrder(calls, batch) ==
    /\ Len(calls) <= Len(batch)
    /\ \A k \in 1..Len(calls) : calls[k].ref = batch[k]

\* the run d that has returned made one call for each record of its batch, in
\* order, and its tally counts them
RunTallied(d, calls) ==
    /\ Len(calls) = Len(d.batch)
    /\ InBatchOrder(calls, d.batch)
    /\ d.results.success + d.results.failed = Len(d.batch)
    /\ d.results.failed = Cardinality(FailedOf(calls))
    /\ Len(d.results.errors) = Cardinality(FailedOf(calls))
    /\ \A j \in 1..Len(d.results.errors) :
          d.results.errors[j].ref = Pick(d.batch, FailedOf(calls))[j]

\* C1: whatever inserts fail, a commit run that has returned has called insert
\* for every one of the n records of its batch, success + failed = n, failed
\* is the number of inserts that failed, and errors has exactly one entry for
\* each failed record, in batch order.
C1_CommitTalliesEveryRecord ==
    \A n \in 1..Len(done) : RunTallied(done[n], CallsOf(done[n].id))

\* C1, its case: a run over 3 records has returned whose 2nd insert failed and
\* whose 3rd was still made and succeeded.
C1_FailureInTheMiddle ==
    \E n \in 1..Len(done) :
        /\ Len(done[n].batch) = 3
        /\ done[n].results.success = 2
        /\ done[n].results.failed = 1
        /\ done[n].results.errors[1].ref = done[n].batch[2]

C3_RecordSubmittedAtMostOnce ==
    \A a, b \in 1..Len(callLog) : callLog[a].ref = callLog[b].ref => a = b

\* C4: Parse, Edit, Remove and Reset never call the store: as long as Import
\* has not been pressed, no insert has been called and the records in memory,
\* the next id and the stored data are as they were at the start.
C4_NoStoreCallBeforeImport ==
    imports = 0 =>
        /\ callLog = <<>>
        /\ runs = <<>>
        /\ seizures = <<>>
        /\ nextId = 1
        /\ storage = <<>>

\* C4, its case: without any Import, a batch was parsed and discarded and a
\* second one was parsed, a field was edited and a row was removed.
C4_ParsedEditedRemovedReset ==
    /\ imports = 0
    /\ edits > 0
    /\ Len(parseLog) = 2
    /\ isPreview
    /\ Len(parsedSeizures) < Len(parseLog[2].records)

\* C6: every staged record has minutes >= 0 and 0 <= seconds <= 59, after any
\* Parse and any Edit.
C6_StagedDurationInRange ==
    \A k \in 1..Len(parsedSeizures) :
        /\ heap[parsedSeizures[k]].duration.minutes >= 0
        /\ heap[parsedSeizures[k]].duration.seconds >= 0
        /\ heap[parsedSeizures[k]].duration.seconds <= 59

(***************************************************************************)
(* Properties of the parsers                                               *)
(***************************************************************************)
\* the text is made of digits only
IsDigits(s) == \A k \in 1..Len(s) : s[k] \in Digit

\* the text is YYYY-MM-DDTHH:mm and names a day of the calendar and a time of
\* the day
IsRealDateTime(s) ==
    /\ Len(s) = 16
    /\ s[5] = "-" /\ s[8] = "-" /\ s[11] = "T" /\ s[14] = ":"
    /\ IsDigits(SubSeq(s, 1, 4)) /\ IsDigits(SubSeq(s, 6, 7)) /\ IsDigits(SubSeq(s, 9, 10))
    /\ IsDigits(SubSeq(s, 12, 13)) /\ IsDigits(SubSeq(s, 15, 16))
    /\ DigitsValue(SubSeq(s, 6, 7), 0) \in 1..12
    /\ DigitsValue(SubSeq(s, 9, 10), 0)
          \in 1..daysInMonth(DigitsValue(SubSeq(s, 1, 4), 0), DigitsValue(SubSeq(s, 6, 7), 0))
    /\ DigitsValue(SubSeq(s, 12, 13), 0) \in 0..23
    /\ DigitsValue(SubSeq(s, 15, 16), 0) \in 0..59

\* C5: every record a Parse returned, from free text or from CSV, has a
\* dateTime of the form YYYY-MM-DDTHH:mm that names a real day and time: month
\* 1..12, a day of that month, hour 0..23, minute 0..59.
C5_ParsedDateTimeIsReal ==
    \A n \in 1..Len(parseLog) :
        \A k \in 1..Len(parseLog[n].records) :
            IsRealDateTime(parseLog[n].records[k].dateTime)

\* one of the date patterns of extractDateTime matches somewhere in the line
HasDate(line) == \E k \in 1..Len(DatePatterns) : match(line, DatePatterns[k]) /= NoMatch

\* the lines among lines that are not blank and have a date, in their order
DatedOf(lines) ==
    Pick(lines, {k \in 1..Len(lines) : trim(lines[k]) /= <<>> /\ HasDate(lines[k])})

\* the records the lines give when each is parsed alone
LineRecords(lines, thisYear) == [j \in 1..Len(lines) |-> parseLine(lines[j], thisYear)]

\* the dated lines of a text
DatedLines(text) == DatedOf(split(text, "\n"))

\* for each text and year of the model: the dated lines of the text and the
\* records they give alone, evaluated once
PerLineTable ==
    {<<text, year, DatedLines(text), LineRecords(DatedLines(text), year)>> :
        text \in ImportTexts \cup ParseTexts, year \in Years}

\* the records are, one for one and in order, those of the lines taken alone
OneRecordPerLine(records, lines, alone) ==
    /\ Len(records) = Len(lines)
    /\ \A j \in 1..Len(lines) :
          /\ records[j] = alone[j]
          /\ records[j].description = trim(lines[j])

\* C7: parseSeizureText returns exactly one record for each line that is not
\* blank and has a date, none for any other line, in the order of the lines,
\* and each record is the one its line gives alone: a line without a date
\* neither ends nor changes the parsing of the others.
C7_OneRecordPerDatedLine ==
    \A n \in 1..Len(parseLog) :
        ~parseLog[n].csv =>
            \E e \in PerLineTable :
                /\ e[1] = parseLog[n].text
                /\ e[2] = parseLog[n].year
                /\ OneRecordPerLine(parseLog[n].records, e[3], e[4])

\* a line that is not blank and has no date comes before a line with a date
DatelessBeforeDated(lines) ==
    \E a, b \in 1..Len(lines) :
        a < b /\ trim(lines[a]) /= <<>> /\ ~HasDate(lines[a]) /\ HasDate(lines[b])

\* C7, its case: a free text was parsed that has a dateless line before a
\* dated one, and blank lines, and gave two records.
C7_DatelessLineBetween ==
    \E n \in 1..Len(parseLog) :
        /\ ~parseLog[n].csv
        /\ Len(parseLog[n].records) = 2
        /\ DatelessBeforeDated(split(parseLog[n].text, "\n"))

\* the text has date and one of time, duration, trigger in it
HasHeaderWords(line) ==
    /\ includes(line, <<"d", "a", "t", "e">>)
    /\ \E word \in {<<"t", "i", "m", "e">>, <<"d", "u", "r", "a", "t", "i", "o", "n">>,
                    <<"t", "r", "i", "g", "g", "e", "r">>} : includes(line, word)

\* at least two lines, the first with the header words in lower case
CsvShape(lines) == Len(lines) >= 2 /\ HasHeaderWords(toLowerCase(lines[1]))

HasYear(m) == m = NoMatch \/ m.g["year"] /= <<>>

\* every date the parser reads on the lines has its year
YearsGiven(lines) == \A k \in 1..Len(lines) : HasYear(FirstDateMatch(lines[k], 1))

C10_ExampleTimeIsClockTime ==
    \A n \in 1..Len(parseLog) :
        parseLog[n].text = UsageExample =>
            /\ Len(parseLog[n].records) = 1
            /\ From(parseLog[n].records[1].dateTime, 12) = <<"1", "5", ":", "3", "0">>
            /\ parseLog[n].records[1].duration = [minutes |-> 1, seconds |-> 45]
            /\ parseLog[n].records[1].trigger
                  = <<"L", "o", "u", "d", " ", "n", "o", "i", "s", "e">>


(***************************************************************************)
(* The date and time forms of a free-text line                             *)
(***************************************************************************)
\* the texts of the model that are one line
OneLineTexts == {text \in ParseTexts : \A k \in 1..Len(text) : text[k] /= "\n"}

\* the line begins with a date written D Month[,] [Y] and an optional time
BeginsDayFirst(line) == M(DatePatterns[3], line, 1, NoGroups) /= <<>>

\* the engine's match of the D Month[,] [Y] form at the start of the line
DayFirstMatch(line, ms) == [b |-> 1, e |-> ms[1].e, g |-> ms[1].g]

\* the timestamp of the D Month[,] [Y] form at the start of the line
DayFirstDateTime(line, thisYear) ==
    DateTimeOfMatch(line, DayFirstMatch(line, M(DatePatterns[3], line, 1, NoGroups)), thisYear)

\* for each one-line text that begins day-before-month and each year: the
\* timestamp its day, month, year and time give
DayFirstTable ==
    {<<text, year, DayFirstDateTime(text, year)>> :
        text \in {t \in OneLineTexts : BeginsDayFirst(t)}, year \in Years}

\* C11: a line whose date is written day-before-month, D Month[,] [Y] with an
\* optional trailing time, yields one record with day D, that month, year Y (the
\* current year without one) and the trailing time.
C11_DayBeforeMonth ==
    \A n \in 1..Len(parseLog) :
        \A e \in DayFirstTable :
            (e[1] = parseLog[n].text /\ e[2] = parseLog[n].year) =>
                /\ Len(parseLog[n].records) = 1
                /\ parseLog[n].records[1].dateTime = e[3]


\* a time token with a colon and no am or pm after it: H:MM or HH:MM
ColonToken ==
    Cat(<<Star(Ch(Space)), Grp("hour", D12), Ch({":"}), Grp("minute", Rep(Ch(Digit), 2, 2)),
          NotAhead(Ch(Digit)),
          NotAhead(Cat(<<Star(Ch(Space)), Alt(<<Word(<<"a", "m">>), Word(<<"p", "m">>)>>)>>))>>)

\* the colon tokens that begin where the date match m of the line ends
ColonTokenAfter(line, m) == IF m = NoMatch THEN <<>> ELSE M(ColonToken, line, m.e, NoGroups)

\* the time a colon token gives: the hours left of the colon, the minutes right
ColonTime(line, ms) ==
    padStart2(toString(parseInt(SubSeq(line, ms[1].g["hour"][1], ms[1].g["hour"][2] - 1))[1]))
    \o <<":">> \o SubSeq(line, ms[1].g["minute"][1], ms[1].g["minute"][2] - 1)

\* for each one-line text with a colon token directly after its date: the time
\* of the token
ColonTimeTable ==
    {<<text, ColonTime(text, ColonTokenAfter(text, FirstDateMatch(text, 1)))>> :
        text \in {t \in OneLineTexts : ColonTokenAfter(t, FirstDateMatch(t, 1)) /= <<>>}}

\* the time of day of a timestamp: what follows its T
TimeOfDay(dateTime) ==
    From(dateTime, 1 + CHOOSE k \in 1..Len(dateTime) : dateTime[k] = "T")

\* C12: a time written with a colon and without am or pm directly after the
\* date (21:30) is the time of the record, hours left of the colon and minutes
\* right of it, and not the default 12:00.
C12_ColonTimeWithoutPeriod ==
    \A n \in 1..Len(parseLog) :
        \A e \in ColonTimeTable :
            (e[1] = parseLog[n].text /\ ~parseLog[n].csv) =>
                /\ Len(parseLog[n].records) = 1
                /\ TimeOfDay(parseLog[n].records[1].dateTime) = e[2]


(***************************************************************************)
(* Durations and triggers of a free-text line                              *)
(***************************************************************************)
\* <digits>:<digits>
DigitPair == Cat(<<Plus(Ch(Digit)), Ch({":"}), Plus(Ch(Digit))>>)

\* <digits>:<digits> with am or pm directly after it: a clock time
ClockTimeToken == Cat(<<DigitPair, Alt(<<Word(<<"a", "m">>), Word(<<"p", "m">>)>>)>>)

\* the text has no minute or second words after a number
NoDurationWords(text) ==
    /\ match(text, DurationPatterns[1]) = NoMatch
    /\ match(text, DurationPatterns[2]) = NoMatch

\* the only <digits>:<digits> pair of the text is a clock time: there is a
\* clock time, and no pair after it or in front of it
OnlyPairIsClockTime(text, m) ==
    /\ m /= NoMatch
    /\ match(SubSeq(text, 1, m.b - 1), DigitPair) = NoMatch
    /\ exec(DigitPair, text, m.e) = NoMatch
    /\ match(text, DigitPair).b = m.b

\* the text extractDuration is given for a line: the line without its date
DurationText(line) == removeDateTime(line)

\* the one-line texts with a date whose duration text has no minute or second
\* words and, as its only pair of numbers, a clock time
ClockOnlyTexts ==
    {text \in OneLineTexts :
        /\ FirstDateMatch(text, 1) /= NoMatch
        /\ NoDurationWords(DurationText(text))
        /\ OnlyPairIsClockTime(DurationText(text), match(DurationText(text), ClockTimeToken))}

\* C13: for a text without minute or second words whose only <digits>:<digits>
\* pair is a clock time directly followed by am or pm (3:39pm), extractDuration
\* gives {0, 0}: no part of the clock time is read as a duration.
C13_ClockTimeIsNoDuration ==
    \A n \in 1..Len(parseLog) :
        (parseLog[n].text \in ClockOnlyTexts /\ ~parseLog[n].csv) =>
            /\ Len(parseLog[n].records) = 1
            /\ parseLog[n].records[1].duration = [minutes |-> 0, seconds |-> 0]


\* the vocabulary phrases that occur in the lower-cased line, by position in
\* the vocabulary
Occurring(line) == {k \in 1..Len(triggers) : includes(toLowerCase(line), triggers[k])}

\* the longest phrases among those
LongestOf(occ) == {k \in occ : \A j \in occ : Len(triggers[j]) <= Len(triggers[k])}

\* the first of the longest in vocabulary order
FirstLongest(longest) == CHOOSE k \in longest : \A j \in longest : k <= j

\* a phrase with its first character in upper case
Capitalised(phrase) == <<LowerToUpper[phrase[1]]>> \o Tail(phrase)

\* the trigger the matching rule names for a line
RuleTrigger(occ) ==
    IF occ = {} THEN <<"U", "n", "k", "n", "o", "w", "n">>
    ELSE Capitalised(triggers[FirstLongest(LongestOf(occ))])

\* for each one-line text with a date: the phrases occurring in it and the
\* trigger the rule names
TriggerTable ==
    {<<text, Occurring(text), RuleTrigger(Occurring(text))>> :
        text \in {t \in OneLineTexts : FirstDateMatch(t, 1) /= NoMatch}}

\* C14: extractTrigger returns the longest vocabulary phrase that occurs in the
\* lower-cased line, the earliest in vocabulary order among several of that
\* length, with its first character capitalised, and Unknown if and only if no
\* phrase occurs.
C14_LongestPhraseFirstInOrder ==
    \A n \in 1..Len(parseLog) :
        \A e \in TriggerTable :
            (e[1] = parseLog[n].text /\ ~parseLog[n].csv) =>
                /\ Len(parseLog[n].records) = 1
                /\ parseLog[n].records[1].trigger = e[3]
                /\ (parseLog[n].records[1].trigger = <<"U", "n", "k", "n", "o", "w", "n">>)
                      <=> (e[2] = {})

\* C14, its case: a line was parsed in which two phrases of the greatest
\* length occur, and the later one in the vocabulary comes first in the line.
C14_TwoLongestPhrases ==
    \E n \in 1..Len(parseLog) :
        \E e \in TriggerTable :
            /\ e[1] = parseLog[n].text
            /\ ~parseLog[n].csv
            /\ Cardinality(LongestOf(e[2])) = 2
            /\ parseLog[n].records[1].trigger = <<"E", "x", "e", "r", "c", "i", "s", "e">>


\* the triggers a record may name: the vocabulary phrases with their first
\* letter capitalised, and Unknown
VocabularyNames ==
    {Capitalised(triggers[k]) : k \in 1..Len(triggers)} \cup {<<"U", "n", "k", "n", "o", "w", "n">>}

\* C15: every record that parsing produces, from free text and from CSV alike,
\* has a trigger that is a vocabulary phrase with its first letter capitalised
\* or Unknown.
C15_TriggerFromVocabulary ==
    \A n \in 1..Len(parseLog) :
        \A k \in 1..Len(parseLog[n].records) :
            parseLog[n].records[k].trigger \in VocabularyNames


(***************************************************************************)
(* The fields of a comma-separated row                                     *)
(***************************************************************************)
\* the quote characters in front of position i
QuotesBefore(line, i) == (i - 1) - Len(removeQuotes(SubSeq(line, 1, i - 1)))

\* the positions of the commas outside double quotes
UnquotedCommas(line) ==
    {i \in 1..Len(line) : line[i] = "," /\ QuotesBefore(line, i) % 2 = 0}

\* a text without its white space
NoSpaces(s) == Pick(s, {k \in 1..Len(s) : s[k] \notin Space})

\* the fields one after the other
RECURSIVE Joined(_, _)
Joined(fields, k) == IF k > Len(fields) THEN <<>> ELSE fields[k] \o Joined(fields, k + 1)

\* nothing but separators, quotes and white space is lost, and nothing added:
\* the fields in a row are the line without its quotes and unquoted commas
RowKept(line, fields) ==
    NoSpaces(Joined(fields, 1))
        = NoSpaces(removeQuotes(Pick(line, (1..Len(line)) \ UnquotedCommas(line))))

\* every field is without white space around it and without quote characters
FieldsClean(fields) ==
    \A k \in 1..Len(fields) : trim(fields[k]) = fields[k] /\ removeQuotes(fields[k]) = fields[k]

\* a row with k unquoted commas is split into k + 1 clean fields that keep
\* what the line holds
WellSplit(line, fields) ==
    /\ Len(fields) = Cardinality(UnquotedCommas(line)) + 1
    /\ FieldsClean(fields)
    /\ RowKept(line, fields)

\* the data rows of a text in comma mode as parseCSV reads them
CommaRows(lines) ==
    IF delimiterOf(lines[1]) /= "," THEN <<>>
    ELSE Pick([i \in 1..Len(lines) |-> trim(lines[i])],
              {i \in 2..Len(lines) : trim(lines[i]) /= <<>>})

\* for each text of the model that is read as CSV: its rows in comma mode and
\* whether each is well split by the scan
CommaRowTable ==
    {<<text, CommaRows(split(trim(text), "\n")),
       \A line \in {CommaRows(split(trim(text), "\n"))[i] :
                       i \in 1..Len(CommaRows(split(trim(text), "\n")))} :
           WellSplit(line, rowValues(line, ","))>> :
        text \in {t \in ParseTexts \cup ImportTexts : detectCSV(t)}}

\* C16: in comma mode a row is split only at the commas outside double quotes:
\* a row with k such commas gives k + 1 fields, the last one ending with the
\* line, each without white space around it and without quote characters, and
\* a comma between quotes stays in its field.
C16_SplitAtUnquotedCommas ==
    \A n \in 1..Len(parseLog) :
        \A e \in CommaRowTable : (e[1] = parseLog[n].text) => e[3]

\* C16, its case: a CSV text was parsed that has a row with a comma between
\* quotes, and the comma is in the description of the record.
C16_CommaBetweenQuotes ==
    \E n \in 1..Len(parseLog) :
        /\ parseLog[n].csv
        /\ \E e \in CommaRowTable :
              /\ e[1] = parseLog[n].text
              /\ \E i \in 1..Len(e[2]) : \E p \in 1..Len(e[2][i]) :
                    e[2][i][p] = "," /\ p \notin UnquotedCommas(e[2][i])
        /\ \E k \in 1..Len(parseLog[n].records) :
              includes(parseLog[n].records[k].description, <<",">>)


\* the row has a doubled quote inside a quoted field: two quotes next to each
\* other with an odd number of quotes in front of them
HasEscapedQuote(line) ==
    \E p \in 1..(Len(line) - 1) :
        line[p] = "\"" /\ line[p + 1] = "\"" /\ QuotesBefore(line, p) % 2 = 1

\* one of the fields has a quote character in its value
HasQuoteInField(fields) == \E k \in 1..Len(fields) : includes(fields[k], <<"\"">>)

\* for each text of the model that is read as CSV: its rows with a doubled
\* quote in a quoted field, by position among its rows in comma mode
EscapedQuoteTable ==
    {<<text, {i \in 1..Len(CommaRows(split(trim(text), "\n"))) :
                 HasEscapedQuote(CommaRows(split(trim(text), "\n"))[i])}>> :
        text \in {t \in ParseTexts \cup ImportTexts : detectCSV(t)}}

\* C17: in comma mode a doubled quote inside a quoted field is an escape that
\* puts one quote character into the value of the field.
C17_DoubledQuoteIsOneQuote ==
    \A n \in 1..Len(parseLog) :
        \A e \in EscapedQuoteTable :
            (e[1] = parseLog[n].text) =>
                \A i \in e[2] :
                    HasQuoteInField(rowValues(CommaRows(split(trim(e[1]), "\n"))[i], ","))


(***************************************************************************)
(* The date of a CSV row                                                   *)
(***************************************************************************)
\* the data rows of a CSV text as parseCSV reads them: trimmed and not empty
DataRows(lines) ==
    Pick([i \in 1..Len(lines) |-> trim(lines[i])],
         {i \in 2..Len(lines) : trim(lines[i]) /= <<>>})

\* the date field and the time field of a row joined by a single space
CsvDateText(values, headers) ==
    FieldOrEmpty(values, findIndex(headers, <<"d", "a", "t", "e">>))
    \o <<" ">>
    \o FieldOrEmpty(values, findIndex(headers, <<"t", "i", "m", "e">>))

\* what the free-text extractDateTime makes of the date and time of a row:
\* the timestamp, or nothing for null
RowDateAsFreeText(line, first, thisYear) ==
    LET dateTime == extractDateTime(CsvDateText(rowValues(line, delimiterOf(first)),
                                                csvHeaders(first)), thisYear)
    IN  IF dateTime = Null THEN <<>> ELSE <<dateTime>>

\* the timestamps of the rows from the i-th on, a row without one dropped
RECURSIVE RowDatesFrom(_, _, _, _)
RowDatesFrom(rows, i, first, thisYear) ==
    IF i > Len(rows) THEN <<>>
    ELSE RowDateAsFreeText(rows[i], first, thisYear) \o RowDatesFrom(rows, i + 1, first, thisYear)

\* the timestamps the free-text routine gives for the rows of a CSV text
RowDatesAsFreeText(lines, thisYear) == RowDatesFrom(DataRows(lines), 1, lines[1], thisYear)

\* the timestamps of a list of records
DateTimesOf(records) == [k \in 1..Len(records) |-> records[k].dateTime]

\* for each text of the model that is read as CSV and each year: the
\* timestamps the free-text routine gives for its rows
FreeTextDateTable ==
    {<<text, year, RowDatesAsFreeText(split(trim(text), "\n"), year)>> :
        text \in {t \in ParseTexts \cup ImportTexts : detectCSV(t)}, year \in Years}

\* C19: on the CSV path the date of a row is resolved by the routine of the
\* free text: the timestamp of every row, or the row being dropped, is what
\* extractDateTime gives for the date field and the time field joined by a
\* space, 12:00 for an empty time field.
C19_CsvDateByFreeTextRoutine ==
    \A n \in 1..Len(parseLog) :
        \A e \in FreeTextDateTable :
            (e[1] = parseLog[n].text /\ e[2] = parseLog[n].year) =>
                DateTimesOf(parseLog[n].records) = e[3]


(***************************************************************************)
(* The records of a commit run while it is in progress                     *)
(***************************************************************************)
\* the records of the runs in progress that have not been handed to
\* addSeizure yet
AwaitingInsert ==
    UNION {{runs[i].batch[k] : k \in (runs[i].k + 1)..Len(runs[i].batch)} : i \in 1..Len(runs)}

\* C20: while a commit run is in progress no step touches its records: a
\* record that is still to be inserted keeps, through every step, the values it
\* had when Import was pressed, so these are the values inserted.
C20_RunRecordsUntouched ==
    [][\A ref \in AwaitingInsert : heap'[ref] = heap[ref]]_vars


(***************************************************************************)
(* database.js: the export, and the restore of an export by the importer   *)
(***************************************************************************)
\* the number a part of a stored timestamp YYYY-MM-DDTHH:mm stands for
Part(dateTime, first, last) == parseInt(SubSeq(dateTime, first, last))[1]

\* year, month, day, hours and minutes of a stored timestamp
StoredFields(dateTime) ==
    <<Part(dateTime, 1, 4), Part(dateTime, 6, 7), Part(dateTime, 9, 10),
      Part(dateTime, 12, 13), Part(dateTime, 15, 16)>>

\* a is later than b, both lists of numbers of one length
RECURSIVE Later(_, _, _)
Later(a, b, k) ==
    IF k > Len(a) THEN FALSE
    ELSE a[k] > b[k] \/ (a[k] = b[k] /\ Later(a, b, k + 1))

\* the rows stored before row k that are later than it, and the rows stored
\* after it that are not earlier
AheadOf(recs, k) ==
    {j \in 1..Len(recs) :
        \/ Later(StoredFields(recs[j].dateTime), StoredFields(recs[k].dateTime), 1)
        \/ (j < k /\ recs[j].dateTime = recs[k].dateTime)}

\* getSeizures(): SELECT * FROM seizures ORDER BY dateTime DESC
getSeizures(recs) ==
    [p \in 1..Len(recs) |->
        recs[CHOOSE k \in 1..Len(recs) : Cardinality(AheadOf(recs, k)) = p - 1]]

\* date.toLocaleDateString('en-US'): M/D/YYYY
toLocaleDateString(f) ==
    toString(f[2]) \o <<"/">> \o toString(f[3]) \o <<"/">> \o toString(f[1])

\* the hour of the 12-hour clock
Hour12(hours) == IF hours % 12 = 0 THEN 12 ELSE hours % 12

\* date.toLocaleTimeString('en-US', {hour: 'numeric', minute: '2-digit',
\* hour12: true}): h:mm AM or h:mm PM
toLocaleTimeString(f) ==
    toString(Hour12(f[4])) \o <<":">> \o padStart2(toString(f[5]))
    \o (IF f[4] < 12 THEN <<" ", "A", "M">> ELSE <<" ", "P", "M">>)

\* str.replace(/"/g, '""')
RECURSIVE DoubleQuotes(_)
DoubleQuotes(str) ==
    IF str = <<>> THEN <<>>
    ELSE (IF Head(str) = "\"" THEN <<"\"", "\"">> ELSE <<Head(str)>>) \o DoubleQuotes(Tail(str))

\* cleaned.includes(',') ? `"${cleaned}"` : cleaned
Quoted(cleaned) ==
    IF includes(cleaned, <<",">>) THEN <<"\"">> \o cleaned \o <<"\"">> ELSE cleaned

\* escapeCsv(str): quotes doubled, and the text between quotes if it has a comma
escapeCsv(str) == IF str = <<>> THEN <<>> ELSE Quoted(DoubleQuotes(str))

\* the row of one stored record
ExportRow(s, f) ==
    toLocaleDateString(f) \o <<",">> \o toLocaleTimeString(f)
    \o <<",">> \o toString(s.duration_minutes) \o <<",">> \o toString(s.duration_seconds)
    \o <<",">> \o escapeCsv(s.trigger) \o <<",">> \o escapeCsv(s.description)

\* rows.join('\n') from the k-th row on
RECURSIVE ExportRows(_, _)
ExportRows(rows, k) ==
    IF k > Len(rows) THEN <<>>
    ELSE (IF k > 1 THEN <<"\n">> ELSE <<>>)
         \o ExportRow(rows[k], StoredFields(rows[k].dateTime)) \o ExportRows(rows, k + 1)

\* the header line of the export, with its line break
ExportHeader == <<"D", "a", "t", "e", ",", "T", "i", "m", "e", ",", "D", "u", "r", "a", "t", "i", "o", "n", " ", "(", "m", "i", "n", ")", ",", "D", "u", "r", "a", "t", "i", "o", "n", " ", "(", "s", "e", "c", ")", ",", "T", "r", "i", "g", "g", "e", "r", ",", "D", "e", "s", "c", "r", "i", "p", "t", "i", "o", "n", "\n">>

\* exportDataAsCSV() for the rows getSeizures returns
exportDataAsCSV(rows) == ExportHeader \o ExportRows(rows, 1)

\* the records a store may hold: plain text, a comma, quotes and a comma,
\* quotes alone; midnight, noon, morning and evening
StoredPool ==
    <<  [dateTime |-> <<"2", "0", "2", "4", "-", "0", "6", "-", "1", "6", "T", "2", "1", ":", "0", "0">>, duration_minutes |-> 2, duration_seconds |-> 0,
         trigger |-> <<"W", "o", "k", "e", " ", "u", "p">>, description |-> <<"6", "/", "1", "6", "/", "2", "0", "2", "4", " ", "9", "p", "m", " ", "2", " ", "m", "i", "n", " ", "w", "o", "k", "e", " ", "u", "p">>],
        [dateTime |-> <<"2", "0", "2", "4", "-", "1", "0", "-", "0", "5", "T", "0", "0", ":", "0", "6">>, duration_minutes |-> 0, duration_seconds |-> 45,
         trigger |-> <<"U", "n", "k", "n", "o", "w", "n">>, description |-> <<"f", "e", "l", "l", ",", " ", "t", "h", "e", "n", " ", "g", "o", "t", " ", "u", "p">>],
        [dateTime |-> <<"2", "0", "2", "4", "-", "0", "6", "-", "1", "7", "T", "1", "2", ":", "3", "0">>, duration_minutes |-> 1, duration_seconds |-> 30,
         trigger |-> <<"L", "o", "u", "d", " ", "n", "o", "i", "s", "e">>, description |-> <<"b", "a", "r", "k", "e", "d", " ", "\"", "l", "o", "u", "d", "\"", ",", " ", "t", "h", "e", "n", " ", "f", "e", "l", "l">>],
        [dateTime |-> <<"2", "0", "2", "3", "-", "1", "2", "-", "2", "5", "T", "0", "8", ":", "0", "5">>, duration_minutes |-> 0, duration_seconds |-> 0,
         trigger |-> <<"S", "t", "r", "e", "s", "s">>, description |-> <<"s", "a", "i", "d", " ", "\"", "n", "o", "\"">>] >>

\* the stored record made of the k-th record of the pool with the given id
StoredAs(k, id) ==
    [id |-> id,
     dateTime |-> StoredPool[k].dateTime,
     duration_minutes |-> StoredPool[k].duration_minutes,
     duration_seconds |-> StoredPool[k].duration_seconds,
     description |-> StoredPool[k].description,
     trigger |-> StoredPool[k].trigger]

\* the contents of a store: one or two different records of the pool, in the
\* order they were added
StoredLists ==
    {<<StoredAs(a, 1)>> : a \in 1..Len(StoredPool)}
    \cup {<<StoredAs(p[1], 1), StoredAs(p[2], 2)>> :
            p \in {q \in (1..Len(StoredPool)) \X (1..Len(StoredPool)) : q[1] /= q[2]}}

\* the import view is freshly mounted over a store that holds records
InitRestore ==
    /\ Mounted(inputText, parsedSeizures, isPreview, importing, importResults)
    /\ heap = <<>>
    /\ nextRef = 1
    /\ runs = <<>>
    /\ seizures \in StoredLists
    /\ nextId = Len(seizures) + 1
    /\ storage = <<[seizures |-> seizures, nextId |-> nextId]>>
    /\ currentYear = 2026
    /\ callLog = <<>>
    /\ done = <<>>
    /\ parseLog = <<>>
    /\ edits = 0
    /\ imports = 0
    /\ steps = 0
    /\ app = [AppLoaded(getSeizures(seizures)) EXCEPT !.view = "batchImport"]
    /\ appLog = NoSubmits

\* the user exports the data and pastes the text of the file into the textarea
PasteExport ==
    /\ Tick
    /\ UNCHANGED appVars
    /\ setInputText(exportDataAsCSV(getSeizures(seizures)))
    /\ UNCHANGED history

NextRestore == PasteExport \/ Parse \/ Reset \/ YearTick

SpecRestore == InitRestore /\ [][NextRestore]_vars

\* the staged record has the date and time, duration, trigger and description
\* of the stored record
SameData(record, s) ==
    /\ record.dateTime = s.dateTime
    /\ record.duration = [minutes |-> s.duration_minutes, seconds |-> s.duration_seconds]
    /\ record.trigger = s.trigger
    /\ record.description = s.description

\* the records restore the rows, one for one
Restored(records, rows) ==
    /\ Len(records) = Len(rows)
    /\ \A k \in 1..Len(rows) : SameData(records[k], rows[k])

\* C18: export followed by import restores the data: the pasted output of
\* exportDataAsCSV is classified as CSV and gives one record for each exported
\* record with its date and time, duration, trigger and description, also for
\* fields with commas or double quotes.
C18_ExportThenImportRestores ==
    \A n \in 1..Len(parseLog) :
        (parseLog[n].text = exportDataAsCSV(getSeizures(seizures))) =>
            /\ parseLog[n].csv
            /\ Restored(parseLog[n].records, getSeizures(seizures))


(***************************************************************************)
(* The text the duration is read from                                      *)
(***************************************************************************)
\* the line without the characters of its date match m
WithoutMatch(line, m) == SubSeq(line, 1, m.b - 1) \o From(line, m.e)

\* what the exact removal of the date match m of a line gives: whether
\* removeDateTime leaves that text, and the duration read from it
ExactRemoval(text, line, m) ==
    <<text, removeDateTime(line) = WithoutMatch(line, m), extractDuration(WithoutMatch(line, m))>>

\* for each one-line text with a date: the exact removal of its date match
ExactRemovalTable ==
    {ExactRemoval(text, trim(text), FirstDateMatch(trim(text), 1)) :
        text \in {t \in OneLineTexts : FirstDateMatch(trim(t), 1) /= NoMatch}}

\* C21: the text extractDuration is given is the line with exactly the
\* substring matched by extractDateTime removed, so the duration of the record
\* is the one read from the line without its date match: a number directly
\* after the date (6/18/24 2 min) is kept and extracted.
C21_ExactlyTheDateMatchRemoved ==
    \A n \in 1..Len(parseLog) :
        \A e \in ExactRemovalTable :
            (e[1] = parseLog[n].text /\ ~parseLog[n].csv) =>
                /\ e[2]
                /\ Len(parseLog[n].records) = 1
                /\ parseLog[n].records[1].duration = e[3]


(***************************************************************************)
(* A month-name date without a year, followed by a time of four digits     *)
(***************************************************************************)
\* Month D[,] HHMM am|pm: no year, and a time of four digits without a colon
\* directly after the day
YearlessFourDigitTime ==
    Cat(<<Grp("month", MonthName), Plus(Ch(Space)), Grp("day", D12), Opt(Ordinal),
          Star(SpaceOrComma),
          Grp("time", Cat(<<Rep(Ch(Digit), 4, 4), Star(Ch(Space)), AmPm>>))>>)

\* the line begins with such a date and time
BeginsYearless(line) == M(YearlessFourDigitTime, line, 1, NoGroups) /= <<>>

\* the timestamp of such a line: its month and day, the year of the clock and
\* the time its four digits and am or pm give
YearlessDateTime(line, ms, thisYear) ==
    DateTimeOfMatch(line, [b |-> 1, e |-> ms[1].e, g |-> ms[1].g], thisYear)

\* for each one-line text that begins with such a date and time, and each year:
\* the timestamp with the year of the clock and the time of the four digits
YearlessTimeTable ==
    {<<text, year, YearlessDateTime(text, M(YearlessFourDigitTime, text, 1, NoGroups), year)>> :
        text \in {t \in OneLineTexts : BeginsYearless(t)}, year \in Years}

\* C22: a month-name date without a year directly followed by a time of four
\* digits without a colon and am or pm (June 20 1140pm) yields a record of the
\* current year at that time (23:40): the four digits are not taken as the year.
C22_FourDigitsAreTheTime ==
    \A n \in 1..Len(parseLog) :
        \A e \in YearlessTimeTable :
            (e[1] = parseLog[n].text /\ e[2] = parseLog[n].year) =>
                /\ Len(parseLog[n].records) = 1
                /\ parseLog[n].records[1].dateTime = e[3]


(***************************************************************************)
(* The order of the date patterns                                          *)
(***************************************************************************)
\* the families of date patterns that match somewhere in the line
FamiliesOf(line) == {k \in 1..Len(DatePatterns) : match(line, DatePatterns[k]) /= NoMatch}

\* the family of highest priority among those that match: the lowest number
FirstFamily(line) == CHOOSE k \in FamiliesOf(line) : \A j \in FamiliesOf(line) : k <= j

\* the one-line texts in which more than one family matches
SeveralFamilies == {text \in OneLineTexts : Cardinality(FamiliesOf(trim(text))) > 1}

\* the timestamp the match of the family of highest priority gives
PriorityDateTime(line, thisYear) ==
    DateTimeOfMatch(line, match(line, DatePatterns[FirstFamily(line)]), thisYear)

\* for each text in which several families match, and each year: the
\* timestamp of the family of highest priority, and whether a match of another
\* family begins in front of it
PriorityTable ==
    {<<text, year, PriorityDateTime(trim(text), year),
       \E k \in FamiliesOf(trim(text)) :
           match(trim(text), DatePatterns[k]).b
               < match(trim(text), DatePatterns[FirstFamily(trim(text))]).b>> :
        text \in SeveralFamilies, year \in Years}

\* C23: the three families of date patterns are tried in a fixed order, M/D/Y,
\* Month D, D Month, and the first family that matches anywhere in the line
\* gives the date: a line with a numeric date and a month-name date yields the
\* numeric date, whichever of the two comes first in the line.
C23_FirstFamilyGivesTheDate ==
    \A n \in 1..Len(parseLog) :
        \A e \in PriorityTable :
            (e[1] = parseLog[n].text /\ e[2] = parseLog[n].year) =>
                /\ Len(parseLog[n].records) = 1
                /\ parseLog[n].records[1].dateTime = e[3]

\* a line whose month-name date stands in front of its numeric date has been
\* parsed and has the numeric date
C23_MonthNameBeforeNumeric ==
    \E n \in 1..Len(parseLog) :
        \E e \in PriorityTable :
            /\ e[1] = parseLog[n].text
            /\ e[2] = parseLog[n].year
            /\ e[4]
            /\ match(trim(e[1]), DatePatterns[1]) /= NoMatch
            /\ parseLog[n].records[1].dateTime = e[3]


(***************************************************************************)
(* Columns that are missing and cells that are no numbers                  *)
(***************************************************************************)
\* no header token contains the word
NoColumn(headers, word) == \A k \in 1..Len(headers) : ~includes(headers[k], word)

\* the cell of a row under the first header token that contains the word:
\* empty where the row is too short
CellOf(values, headers, word) ==
    LET k == CHOOSE j \in 1..Len(headers) :
                 /\ includes(headers[j], word)
                 /\ \A i \in 1..(j - 1) : ~includes(headers[i], word)
    IN  IF k <= Len(values) THEN values[k] ELSE <<>>

\* the cell does not begin with a number
NonNumeric(cell) == cell = <<>> \/ cell[1] \notin Digit \cup {"-", "+"}

\* the column is missing, or the cell of the row under it is without content
Defaulted(values, headers, word) ==
    NoColumn(headers, word) \/ CellOf(values, headers, word) = <<>>

\* the column is missing, or the cell of the row under it is no number
ReadsAsZero(values, headers, word) ==
    NoColumn(headers, word) \/ NonNumeric(CellOf(values, headers, word))

\* which fields of the record of a row are to hold their default
DefaultsOf(values, headers) ==
    [minutes |-> ReadsAsZero(values, headers, <<"m", "i", "n">>),
     seconds |-> ReadsAsZero(values, headers, <<"s", "e", "c">>),
     noMinutes |-> NoColumn(headers, <<"m", "i", "n">>),
     trigger |-> Defaulted(values, headers, <<"t", "r", "i", "g", "g", "e", "r">>),
     description |-> Defaulted(values, headers, <<"d", "e", "s", "c">>)]

\* the data rows of a CSV text whose date and time make a valid date
DatedRows(lines) ==
    Pick(DataRows(lines),
         {i \in 1..Len(DataRows(lines)) :
             NewDate(CsvDateText(rowValues(DataRows(lines)[i], delimiterOf(lines[1])),
                                 csvHeaders(lines[1]))).valid})

\* for the dated rows of a CSV text, in order: the fields to hold their default
RowDefaults(rows, first) ==
    [k \in 1..Len(rows) |-> DefaultsOf(rowValues(rows[k], delimiterOf(first)), csvHeaders(first))]

\* for each text of the model that is read as CSV: the defaults of its dated rows
DefaultsTable ==
    {<<text, RowDefaults(DatedRows(split(trim(text), "\n")), split(trim(text), "\n")[1])>> :
        text \in {t \in ParseTexts \cup ImportTexts : detectCSV(t)}}

\* C24: in a CSV text a column that matches no header token reads as its
\* default for every row, 0 for minutes and seconds and the empty text for
\* trigger and description, a minutes or seconds cell that is no number reads
\* as 0, and no such row ends the batch: every row with a valid date has its
\* record.
C24_MissingAndNonNumericDefault ==
    \A n \in 1..Len(parseLog) :
        \A e \in DefaultsTable :
            (e[1] = parseLog[n].text /\ parseLog[n].csv) =>
                /\ Len(parseLog[n].records) = Len(e[2])
                /\ \A k \in 1..Len(e[2]) :
                      /\ e[2][k].minutes => parseLog[n].records[k].duration.minutes = 0
                      /\ e[2][k].seconds => parseLog[n].records[k].duration.seconds = 0
                      /\ e[2][k].trigger => parseLog[n].records[k].trigger = <<>>
                      /\ e[2][k].description => parseLog[n].records[k].description = <<>>

\* a CSV text without a trigger column was parsed in which a row with a
\* minutes cell that is no number is followed by another row, and both rows
\* have their record
C24_NonNumericRowThenAnother ==
    \E n \in 1..Len(parseLog) :
        \E e \in DefaultsTable :
            /\ e[1] = parseLog[n].text
            /\ parseLog[n].csv
            /\ Len(parseLog[n].records) = Len(e[2])
            /\ \E k \in 1..(Len(e[2]) - 1) :
                  /\ e[2][k].minutes /\ ~e[2][k].noMinutes
                  /\ e[2][k].trigger
                  /\ parseLog[n].records[k].duration.minutes = 0
                  /\ parseLog[n].records[k].trigger = <<>>


(***************************************************************************)
(* The date column of a text read as CSV                                   *)
(***************************************************************************)
\* the position of the date column parseCSV finds in the header line: 0 for
\* not found
DateColumn(first) == findIndex(csvHeaders(first), <<"d", "a", "t", "e">>)

\* for each text of the model that detectCSV takes for CSV: its header line
\* and the position of its date column
DateColumnTable ==
    {<<text, split(trim(text), "\n")[1], DateColumn(split(trim(text), "\n")[1])>> :
        text \in {t \in ParseTexts \cup ImportTexts : detectCSV(t)}}

\* C30: whenever detectCSV takes a text for CSV, parseCSV finds a date column:
\* the position of the first header token that contains date is never
\* not-found, with commas and with tabs between the tokens and with quote
\* characters in the header line.
C30_DateColumnFound ==
    \A n \in 1..Len(parseLog) :
        \A e \in DateColumnTable :
            (e[1] = parseLog[n].text /\ parseLog[n].csv) => e[3] \in 1..Len(csvHeaders(e[2]))

\* a text with tabs between its header tokens and quote characters around
\* them was read as CSV, and its row has its record
C30_QuotedTabHeader ==
    \E n \in 1..Len(parseLog) :
        \E e \in DateColumnTable :
            /\ e[1] = parseLog[n].text
            /\ parseLog[n].csv
            /\ includes(e[2], <<"\t">>)
            /\ includes(e[2], <<"\"">>)
            /\ e[3] /= 0
            /\ parseLog[n].records /= <<>>


(***************************************************************************)
(* Calls of addSeizure that fail                                           *)
(***************************************************************************)
\* the ids of the records getSeizures returns
StoredIds == {getSeizures(seizures)[k].id : k \in 1..Len(seizures)}

\* the calls of addSeizure that have failed or will fail; the store starts with
\* nextId = 1 and every call takes one id, so the c-th call builds record c
FailedCalls == {c \in 1..Len(callLog) : callLog[c].outcome = "saveFailed"}

\* C26: addSeizure is all-or-nothing: whenever a call fails, also when it is
\* the save step that fails after the record was added in memory, the store
\* read by getSeizures does not hold the record of that call, so the records a
\* commit counts as failed are exactly those absent from the store.
C26_FailedCallLeavesNoRecord ==
    /\ nextId = Len(callLog) + 1
    /\ \A c \in FailedCalls : callLog[c].settled => c \notin StoredIds


(***************************************************************************)
(* The tally shown and the batch staged                                    *)
(***************************************************************************)
\* the record objects of an array of references
RefsOf(batch) == {batch[k] : k \in 1..Len(batch)}

\* the commit runs that have returned with the tally shown, for a batch the
\* staged records come from
RunsShown ==
    {d \in 1..Len(done) :
        /\ done[d].results = importResults
        /\ RefsOf(parsedSeizures) \subseteq RefsOf(done[d].batch)}

\* C27: the import results shown belong to the batch that is staged: whenever
\* importResults is set and a batch is previewed, the tally is that of a run
\* over this batch and success + failed is the number of its records that were
\* submitted, also when Reset is pressed and a new text is parsed while an
\* earlier run still awaits its inserts.
C27_ResultsOfStagedBatch ==
    (importResults /= NoResults /\ isPreview /\ parsedSeizures /= <<>>) =>
        \E d \in RunsShown :
            importResults.success + importResults.failed = Len(done[d].batch)


(***************************************************************************)
(* part_002: the store App works on                                        *)
(***************************************************************************)
\* the ids of the rows of the seizures table
IdsOf(rows) == {rows[k].id : k \in 1..Len(rows)}

\* seizure.dateTime.replace('T', ' ') + ':00'
formattedDateTime(dateTime) ==
    [k \in 1..Len(dateTime) |-> IF dateTime[k] = "T" /\ \A j \in 1..(k - 1) : dateTime[j] /= "T"
                                THEN " " ELSE dateTime[k]]
    \o <<":", "0", "0">>

\* the row the INSERT of addSeizure adds
InsertedRow(seizure, id) ==
    [id |-> id,
     dateTime |-> formattedDateTime(seizure.dateTime),
     duration_minutes |-> seizure.duration.minutes,
     duration_seconds |-> seizure.duration.seconds,
     description |-> seizure.description,
     trigger |-> seizure.trigger]

\* saveDB(): the table is copied to IndexedDB, unless the write throws
saveToIndexedDB(outcome, rows) ==
    storage' = IF outcome = "ok" THEN <<[seizures |-> rows]>> ELSE storage

\* addSeizure(seizure): INSERT with the id nextId++, then saveDB. The id column
\* is the PRIMARY KEY: with a row of that id in the table the INSERT fails and
\* the table stays as it is.
insertSeizure(seizure, outcome) ==
    /\ nextId' = nextId + 1
    /\ IF nextId \in IdsOf(seizures)
       THEN /\ outcome = "idInUse"
            /\ UNCHANGED <<seizures, storage>>
       ELSE /\ outcome \in Outcomes
            /\ seizures' = Append(seizures, InsertedRow(seizure, nextId))
            /\ saveToIndexedDB(outcome, seizures')

\* updateSeizure(id, seizure): the row with the id takes the values of the
\* form, then saveDB
updateSeizure(id, seizure, outcome) ==
    /\ outcome \in Outcomes
    /\ seizures' = [k \in 1..Len(seizures) |->
                       IF seizures[k].id = id THEN InsertedRow(seizure, id) ELSE seizures[k]]
    /\ saveToIndexedDB(outcome, seizures')
    /\ UNCHANGED nextId

\* initDB() in a freshly loaded page: the module starts with nextId = 1 and the
\* table is the one saved in IndexedDB, or a new one
initDB ==
    /\ nextId' = 1
    /\ seizures' = IF storage = <<>> THEN <<>> ELSE storage[1].seizures
    /\ UNCHANGED storage

(***************************************************************************)
(* App.js: the log form, the history and the navigation                    *)
(***************************************************************************)
\* the views of the navigation bar
Views == {"log", "batchImport", "history", "insights", "emergency"}

\* the messages of setError
SaveError == "Failed to save seizure to the local database."

UpdateError == "Failed to update seizure to the local database."

LoadError == "Failed to load seizure history from the local database."

InitError == "Failed to initialize the local database."

\* the ways initDB ends
Inits == {"ok", "initFailed"}

\* what renderContent renders: the loading notice, the error message, or the view
Rendered(a) ==
    IF a.isLoading THEN "loading" ELSE IF a.error /= NoError THEN "error" ELSE a.view

\* the ways getSeizures ends
Loads == {"ok", "loadFailed"}

\* loadSeizuresFromDB() from state a of App over the rows of the table
loadSeizuresFromDB(a, rows, load) ==
    IF load = "ok"
    THEN [a EXCEPT !.seizures = getSeizures(rows), !.error = NoError, !.isLoading = FALSE]
    ELSE [a EXCEPT !.error = LoadError, !.isLoading = FALSE]

\* seizureData of handleSubmit
seizureData(form) ==
    [dateTime |-> form.dateTime,
     duration |-> [minutes |-> OrZero(parseInt(form.durationMinutes)),
                   seconds |-> OrZero(parseInt(form.durationSeconds))],
     description |-> form.description,
     trigger |-> form.trigger]

\* the record being edited, or none
Editing(a) == a.editingSeizure /= NotEditing

\* handleSubmit: the record being edited is updated, or a new one is added;
\* then the form is cleared, the records are loaded and the history is shown,
\* or the error is set
handleSubmit(outcome, load) ==
    /\ Rendered(app) = "log"
    /\ app.form.dateTime /= <<>>
    /\ IF Editing(app)
       THEN updateSeizure(app.editingSeizure.id, seizureData(app.form), outcome)
       ELSE insertSeizure(seizureData(app.form), outcome)
    /\ app' = IF outcome = "ok"
              THEN [loadSeizuresFromDB([app EXCEPT !.editingSeizure = NotEditing,
                                                   !.form = EmptyForm],
                                       seizures', load)
                       EXCEPT !.view = "history"]
              ELSE [app EXCEPT !.error = IF Editing(app) THEN UpdateError ELSE SaveError]

\* seizure.dateTime.replace(' ', 'T').split('.')[0].substring(0, 16)
dateTimeStr(dateTime) ==
    LET withT == [k \in 1..Len(dateTime) |->
                     IF dateTime[k] = " " /\ \A j \in 1..(k - 1) : dateTime[j] /= " "
                     THEN "T" ELSE dateTime[k]]
        whole == split(withT, ".")[1]
    IN  SubSeq(whole, 1, IF Len(whole) < 16 THEN Len(whole) ELSE 16)

\* handleEdit(seizure): the form is filled from the record and shown
handleEditSeizure(s) ==
    /\ Rendered(app) = "history"
    /\ app' = [app EXCEPT !.editingSeizure = s,
                          !.form = [dateTime |-> dateTimeStr(s.dateTime),
                                    durationMinutes |-> toString(s.duration_minutes),
                                    durationSeconds |-> toString(s.duration_seconds),
                                    description |-> s.description,
                                    trigger |-> s.trigger],
                          !.view = "log"]
    /\ UNCHANGED store

\* handleCancelEdit: the Cancel button of the form of a record being edited
handleCancelEdit ==
    /\ Rendered(app) = "log"
    /\ Editing(app)
    /\ app' = [app EXCEPT !.editingSeizure = NotEditing, !.form = EmptyForm]
    /\ UNCHANGED store

\* a button of the navigation bar: setView(v)
setView(v) ==
    /\ app' = [app EXCEPT !.view = v]
    /\ UNCHANGED store

\* onChange of the inputs of the log form
setForm(form) ==
    /\ Rendered(app) = "log"
    /\ app' = [app EXCEPT !.form = form]
    /\ UNCHANGED store

\* the page is loaded again: App is mounted anew and initialize runs initDB and
\* loadSeizuresFromDB, or sets the error when initDB throws
initialize(init, load) ==
    /\ initDB
    /\ app' = IF init = "ok"
              THEN loadSeizuresFromDB([AppMounted EXCEPT !.isLoading = TRUE], seizures', load)
              ELSE [AppMounted EXCEPT !.error = InitError]

(***************************************************************************)
(* App and its store as a state machine                                    *)
(***************************************************************************)
MaxSubmits == 3

MaxReloads == 2

\* what the user types into the log form
FormInputs ==
    {   [dateTime |-> <<"2", "0", "2", "4", "-", "0", "6", "-", "1", "6", "T", "2", "1", ":", "0", "0">>, durationMinutes |-> <<"2">>, durationSeconds |-> <<>>,
         description |-> <<"f", "e", "l", "l">>, trigger |-> <<"W", "o", "k", "e", " ", "u", "p">>],
        [dateTime |-> <<"2", "0", "2", "4", "-", "0", "6", "-", "1", "7", "T", "0", "8", ":", "0", "6">>, durationMinutes |-> <<>>, durationSeconds |-> <<"4", "5">>,
         description |-> <<>>, trigger |-> <<>>] }

\* App has loaded an empty store
InitApp ==
    /\ Mounted(inputText, parsedSeizures, isPreview, importing, importResults)
    /\ heap = <<>>
    /\ nextRef = 1
    /\ runs = <<>>
    /\ seizures = <<>>
    /\ nextId = 1
    /\ storage = <<>>
    /\ currentYear = 2026
    /\ callLog = <<>>
    /\ done = <<>>
    /\ parseLog = <<>>
    /\ edits = 0
    /\ imports = 0
    /\ steps = 0
    /\ app = AppMounted
    /\ appLog = NoSubmits

\* what the App actions leave alone: the import view and its history
importView == <<inputText, parsedSeizures, isPreview, importing, importResults, heap, nextRef,
                runs, currentYear, callLog, done, parseLog, edits, imports, steps>>

\* a call of handleSubmit as the history keeps it: the store operation, the id
\* it works on, how it ended, and the record whose edit form was on display
SubmitCall(outcome) ==
    [op |-> IF Editing(app) THEN "update" ELSE "add",
     id |-> IF Editing(app) THEN app.editingSeizure.id ELSE nextId,
     outcome |-> outcome,
     opened |-> appLog.opened]

\* the user fills the log form
FillForm ==
    /\ \E form \in FormInputs : setForm(form)
    /\ UNCHANGED <<importView, appLog>>

\* the user submits the log form
Submit ==
    /\ Len(appLog.calls) < MaxSubmits
    /\ \E outcome \in Outcomes \cup {"idInUse"}, load \in Loads :
          /\ handleSubmit(outcome, load)
          /\ appLog' = [appLog EXCEPT !.opened = 0, !.calls = Append(@, SubmitCall(outcome))]
    /\ UNCHANGED importView

\* the user presses Edit on a record of the history
EditSeizure ==
    /\ \E k \in 1..Len(app.seizures) :
          /\ handleEditSeizure(app.seizures[k])
          /\ appLog' = [appLog EXCEPT !.opened = app.seizures[k].id]
    /\ UNCHANGED importView

\* the user presses Cancel
CancelEdit ==
    /\ handleCancelEdit
    /\ appLog' = [appLog EXCEPT !.opened = 0]
    /\ UNCHANGED importView

\* the user presses a button of the navigation bar; the edit form stays on
\* display only if it is rendered and the button is Log New Seizure
Navigate ==
    /\ \E v \in Views :
          /\ setView(v)
          /\ appLog' = [appLog EXCEPT !.opened =
                           IF v = "log" /\ Rendered(app) = "log" THEN @ ELSE 0]
    /\ UNCHANGED importView

\* the user loads the page again
Reload ==
    /\ appLog.reloads < MaxReloads
    /\ \E init \in Inits, load \in Loads : initialize(init, load)
    /\ appLog' = [appLog EXCEPT !.opened = 0, !.reloads = @ + 1]
    /\ UNCHANGED importView

NextApp == FillForm \/ Submit \/ EditSeizure \/ CancelEdit \/ Navigate \/ Reload

SpecApp == InitApp /\ [][NextApp]_vars

\* C25: the ids of the records stay unique across sessions: after any
\* sequence of page loads (initDB over the saved data) and calls of addSeizure
\* the stored records have pairwise distinct ids, and no call of addSeizure
\* fails or overwrites a record because its id is in use.
C25_IdsUniqueAcrossSessions ==
    /\ Cardinality(IdsOf(seizures)) = Len(seizures)
    /\ \A c \in 1..Len(appLog.calls) : appLog.calls[c].outcome /= "idInUse"

\* C28: a submit of the log form overwrites a record only while the form
\* that Edit opened for that record is still on display: after Cancel or after
\* a visit to another view a submit adds a new record.
C28_UpdateOnlyFromOpenEditForm ==
    \A c \in 1..Len(appLog.calls) :
        appLog.calls[c].op = "update" => appLog.calls[c].opened = appLog.calls[c].id

\* handleSubmit has failed and its error is displayed
SaveFailureShown == Rendered(app) = "error" /\ app.error \in {SaveError, UpdateError}

\* C29: a failed save does not block the application: when handleSubmit has
\* failed and its error is displayed, a press of a navigation button leads to
\* the chosen view being rendered in place of the error message.
C29_NavigationLeavesTheError ==
    [][(SaveFailureShown /\ app'.view /= app.view) => Rendered(app') = app'.view]_vars

====
